---- MODULE Spec2Model ----
(***************************************************************************)
(* The goal-directed action planner of talky: State / StateManager         *)
(* (src/planning/state_manager.py), KnowledgeBase                          *)
(* (src/planning/knowledge_base.py) and AStarPlanner                       *)
(* (src/planning/astar_planner.py).                                        *)
(*                                                                         *)
(* Conventions.                                                            *)
(*  - A Python value is a string naming it: "True", "False", "None", the   *)
(*    int 1 ("1") and two str values ("true", "Pune").  PyEq is Python's   *)
(*    ==, under which True == 1; `is True` is identity with "True".        *)
(*  - A dict is a function whose DOMAIN is its key set.                    *)
(*  - Costs are in tenths: cost 1.5 is 15, the weight execution_time * 0.1 *)
(*    is execution_time tenths, the heuristic's 1.5 * 2.0 is 30 tenths.    *)
(*    All catalog costs are multiples of 0.1; float rounding is not        *)
(*    modelled.                                                            *)
(*  - Node objects live in a per-invocation store `nodes`; a node is named *)
(*    by its index there and `parent` is such an index (0 is None).        *)
(*  - Inside plan() a State is its value [facts, goals].  Where sharing    *)
(*    between objects matters (copy, apply_action_effects, validate_plan   *)
(*    called directly) a State is a reference into `mem`, the store of     *)
(*    dict and set objects, and the operators end in _obj.                 *)
(***************************************************************************)
EXTENDS Integers, Sequences, FiniteSets, TLC

VARIABLES
  kb,              \* KnowledgeBase.actions: the catalog, shared by all invocations
  sm_current,      \* StateManager.current_state
  pc,              \* per invocation: "off", "idle", "loop", "succ", "done"
  arg_state,       \* per invocation: the caller's current_state argument
  arg_goal,        \* per invocation: the caller's goal_state argument
  max_iterations,  \* per invocation: the max_iterations argument
  nodes,           \* per invocation: the Node objects created so far
  open_set,        \* per invocation: heap list of node indices
  closed_set,      \* per invocation: set of State
  visited_states,  \* per invocation: set of State
  iteration,       \* per invocation: the loop counter
  current_node,    \* per invocation: index of the node popped last (0: none)
  successors,      \* per invocation: the (new_state, action) pairs still to process
  result,          \* per invocation: the returned list of actions
  returned_at,     \* per invocation: which return statement ended plan()
  mem,             \* the dict and set objects that State objects hold
  objs,            \* the State objects a direct caller holds: references into mem
  last,            \* the last direct call of a State / StateManager /
                   \* KnowledgeBase / validate_plan method and what it returned
  ops              \* number of mutating direct calls made

vars == <<kb, sm_current, pc, arg_state, arg_goal, max_iterations, nodes, open_set,
          closed_set, visited_states, iteration, current_node, successors,
          result, returned_at, mem, objs, last, ops>>

\* the variables plan() works on, and those of direct method calls
planner_vars == <<pc, arg_state, arg_goal, max_iterations, nodes, open_set,
                  closed_set, visited_states, iteration, current_node, successors,
                  result, returned_at>>

object_vars == <<mem, objs, last, ops>>

-----------------------------------------------------------------------------
(* Python values *)

PyTrue == "True"
PyFalse == "False"
PyNone == "None"
PyOne == "1"
PyStrTrue == "true"
PyStrPune == "Pune"

\* Python ==: bool is a subclass of int, so True == 1
PyEq(a, b) == a = b \/ {a, b} = {PyTrue, PyOne}

EmptyDict == [k \in {} |-> PyNone]

DictSet(d, k, v) == [x \in (DOMAIN d) \cup {k} |-> IF x = k THEN v ELSE d[x]]

\* dict == dict: same keys, values equal under ==
DictEq(d, e) == DOMAIN d = DOMAIN e /\ \A k \in DOMAIN d : PyEq(d[k], e[k])

-----------------------------------------------------------------------------
(* State (state_manager.py) *)

NewState(f) == [facts |-> f, goals |-> {}]

has_fact(s, fact_name) == fact_name \in DOMAIN s.facts

get_fact(s, fact_name) == IF fact_name \in DOMAIN s.facts THEN s.facts[fact_name] ELSE PyNone

set_fact(s, fact_name, value) == [s EXCEPT !.facts = DictSet(s.facts, fact_name, value)]

add_goal(s, goal) == [s EXCEPT !.goals = @ \cup {goal}]

\* mutant: presence alone, the `is True` test of line 64 left out
is_goal_satisfied_present(s, goal) == has_fact(s, goal)

\* mutant: `== True` where line 64 has `is True`
is_goal_satisfied_eq(s, goal) == has_fact(s, goal) /\ PyEq(get_fact(s, goal), PyTrue)

is_goal_satisfied(s, goal) == has_fact(s, goal) /\ get_fact(s, goal) = PyTrue

copy(s) == [facts |-> [k \in DOMAIN s.facts |-> s.facts[k]], goals |-> {g \in s.goals : TRUE}]

\* State.__eq__ ; __hash__ is consistent with it (hash(True) = hash(1))
StateEq(s, t) == DictEq(s.facts, t.facts) /\ s.goals = t.goals

\* State.__hash__: hash((tuple(sorted(facts.items())), tuple(sorted(goals)))).
\* A hash is modelled by what it is computed from; hash(True) = hash(1).
HashValue(v) == IF v = PyTrue THEN PyOne ELSE v

State_hash(s) == <<{<<k, HashValue(s.facts[k])>> : k \in DOMAIN s.facts}, s.goals>>

\* mutant: the set looks an element up by identity of value, True and 1 apart
InStateSet_identical(s, S) == s \in S

\* `state in some_set` for a Python set of State
InStateSet(s, S) == \E t \in S : StateEq(t, s)

\* mutant: the add left out
StateSetAdd_dropped(S, s) == S

\* some_set.add(state): a set keeps the element it already holds
StateSetAdd(S, s) == IF InStateSet(s, S) THEN S ELSE S \cup {s}

-----------------------------------------------------------------------------
(* StateManager (state_manager.py) *)

apply_action_effects(action, state) ==
  LET new_state == copy(state)
      effects == action.effects
  IN [new_state EXCEPT !.facts =
        [x \in (DOMAIN new_state.facts) \cup (DOMAIN effects) |->
            IF x \in DOMAIN effects THEN effects[x] ELSE new_state.facts[x]]]

\* mutant: presence alone, the comparison of line 134 left out
check_preconditions_present(action, state) ==
  \A fact_name \in DOMAIN action.preconditions : has_fact(state, fact_name)

\* mutant: an action that declares dependencies is not applicable
check_preconditions_undeclared(action, state) ==
  /\ action.dependencies = <<>>
  /\ \A fact_name \in DOMAIN action.preconditions :
        /\ has_fact(state, fact_name)
        /\ PyEq(get_fact(state, fact_name), action.preconditions[fact_name])

check_preconditions(action, state) ==
  \A fact_name \in DOMAIN action.preconditions :
     /\ has_fact(state, fact_name)
     /\ PyEq(get_fact(state, fact_name), action.preconditions[fact_name])

\* mutant: the precondition test of line 157 left out
RECURSIVE generate_unchecked(_, _)
generate_unchecked(state, available_actions) ==
  IF available_actions = <<>> THEN <<>>
  ELSE <<[new_state |-> apply_action_effects(Head(available_actions), state),
          action |-> Head(available_actions)]>>
       \o generate_unchecked(state, Tail(available_actions))

\* mutant: an applicable action is kept only if it sets a goal of the state
RECURSIVE generate_goal_related(_, _)
generate_goal_related(state, available_actions) ==
  IF available_actions = <<>> THEN <<>>
  ELSE LET action == Head(available_actions)
           rest == generate_goal_related(state, Tail(available_actions))
       IN IF check_preconditions(action, state) /\ (DOMAIN action.effects) \cap state.goals # {}
          THEN <<[new_state |-> apply_action_effects(action, state), action |-> action]>> \o rest
          ELSE rest

RECURSIVE generate_successor_states(_, _)
generate_successor_states(state, available_actions) ==
  IF available_actions = <<>> THEN <<>>
  ELSE LET action == Head(available_actions)
           rest == generate_successor_states(state, Tail(available_actions))
       IN IF check_preconditions(action, state)
          THEN <<[new_state |-> apply_action_effects(action, state), action |-> action]>> \o rest
          ELSE rest

-----------------------------------------------------------------------------
(* KnowledgeBase (knowledge_base.py) *)

get_available_actions(actions) == [i \in 1..Len(actions) |-> actions[i]]

\* base_cost + execution_time * 0.1, in tenths
estimate_action_cost(action) == action.cost + action.execution_time

\* the None that get_action returns and Node.action defaults to
NoAction == [name |-> "None", preconditions |-> EmptyDict, effects |-> EmptyDict,
             cost |-> 0, execution_time |-> 0, dependencies |-> <<>>]

\* a copy of the first descriptor with that name, or None
RECURSIVE get_action(_, _)
get_action(actions, action_name) ==
  IF actions = <<>> THEN NoAction
  ELSE IF Head(actions).name = action_name
       THEN [f \in DOMAIN Head(actions) |-> Head(actions)[f]]
       ELSE get_action(Tail(actions), action_name)

get_action_dependencies(action) == action.dependencies

\* the for loop of lines 422-432 with executed_actions as it stands
RECURSIVE ValidateSequenceFrom(_, _)
ValidateSequenceFrom(actions, executed_actions) ==
  IF actions = <<>> THEN TRUE
  ELSE LET action_name == Head(actions).name
           dependencies == get_action_dependencies(Head(actions))
       IN IF \E i \in 1..Len(dependencies) : dependencies[i] \notin executed_actions
          THEN FALSE
          ELSE ValidateSequenceFrom(Tail(actions), executed_actions \cup {action_name})

validate_action_sequence(actions) == ValidateSequenceFrom(actions, {})

-----------------------------------------------------------------------------
(* The action catalog: KnowledgeBase._initialize_actions.  The fields       *)
(* planning never reads (parameters, api_endpoint, description) are left    *)
(* out; cost is in tenths, execution_time in whole units.                   *)

Act(n, pre, eff, c, et, deps) ==
  [name |-> n, preconditions |-> pre, effects |-> eff, cost |-> c,
   execution_time |-> et, dependencies |-> deps]

CheckWeather ==
  Act("CheckWeather", [location_valid |-> PyTrue],
      [weather_known |-> PyTrue, weather_location |-> PyNone], 10, 2, <<>>)

SendEmail ==
  Act("SendEmail", [recipient_valid |-> PyTrue, email_content_ready |-> PyTrue],
      [email_sent |-> PyTrue], 20, 3, <<>>)

BookHotel ==
  Act("BookHotel", [location_valid |-> PyTrue, dates_valid |-> PyTrue],
      [hotel_booked |-> PyTrue], 50, 10, <<"CheckWeather">>)

SetReminder ==
  Act("SetReminder", [datetime_valid |-> PyTrue],
      [reminder_set |-> PyTrue], 10, 1, <<>>)

SearchFlights ==
  Act("SearchFlights", [origin_valid |-> PyTrue, destination_valid |-> PyTrue, date_valid |-> PyTrue],
      [flights_found |-> PyTrue], 30, 5, <<>>)

CreateCalendarEvent ==
  Act("CreateCalendarEvent", [datetime_valid |-> PyTrue, title_provided |-> PyTrue],
      [calendar_event_created |-> PyTrue], 15, 2, <<>>)

PlanTrip ==
  Act("PlanTrip", [location_valid |-> PyTrue, date_valid |-> PyTrue],
      [trip_planned |-> PyTrue], 80, 15, <<"CheckWeather", "SearchFlights", "BookHotel">>)

CheckAttendance ==
  Act("CheckAttendance", EmptyDict,
      [attendance_known |-> PyTrue], 20, 3, <<>>)

CheckSubjectAttendance ==
  Act("CheckSubjectAttendance", EmptyDict,
      [subject_attendance_known |-> PyTrue], 15, 2, <<>>)

CheckMonthlyAttendance ==
  Act("CheckMonthlyAttendance", EmptyDict,
      [monthly_attendance_known |-> PyTrue], 15, 2, <<>>)

CheckTimetable ==
  Act("CheckTimetable", EmptyDict,
      [timetable_known |-> PyTrue], 20, 3, <<>>)

CheckSubjectSchedule ==
  Act("CheckSubjectSchedule", EmptyDict,
      [subject_schedule_known |-> PyTrue], 15, 2, <<>>)

CheckTimeSchedule ==
  Act("CheckTimeSchedule", EmptyDict,
      [time_schedule_known |-> PyTrue], 15, 2, <<>>)

CheckCafeteriaMenu ==
  Act("CheckCafeteriaMenu", EmptyDict,
      [cafeteria_menu_known |-> PyTrue], 15, 2, <<>>)

CheckBreakfastMenu ==
  Act("CheckBreakfastMenu", EmptyDict,
      [breakfast_menu_known |-> PyTrue], 10, 2, <<>>)

CheckLunchMenu ==
  Act("CheckLunchMenu", EmptyDict,
      [lunch_menu_known |-> PyTrue], 10, 2, <<>>)

CheckDinnerMenu ==
  Act("CheckDinnerMenu", EmptyDict,
      [dinner_menu_known |-> PyTrue], 10, 2, <<>>)

CheckSnackMenu ==
  Act("CheckSnackMenu", EmptyDict,
      [snack_menu_known |-> PyTrue], 10, 2, <<>>)

SearchInternet ==
  Act("SearchInternet", [query_valid |-> PyTrue],
      [internet_search_complete |-> PyTrue], 30, 5, <<>>)

GenerateAttendancePDF ==
  Act("GenerateAttendancePDF", EmptyDict,
      [attendance_pdf_sent |-> PyTrue], 30, 5, <<>>)

GenerateTimetablePDF ==
  Act("GenerateTimetablePDF", EmptyDict,
      [timetable_pdf_sent |-> PyTrue], 30, 5, <<>>)

GenerateCafeteriaPDF ==
  Act("GenerateCafeteriaPDF", EmptyDict,
      [cafeteria_pdf_sent |-> PyTrue], 30, 5, <<>>)

Greeting ==
  Act("Greeting", EmptyDict,
      [greeting_responded |-> PyTrue], 5, 1, <<>>)

SmallTalk ==
  Act("SmallTalk", EmptyDict,
      [smalltalk_responded |-> PyTrue], 5, 1, <<>>)

Conversation ==
  Act("Conversation", EmptyDict,
      [conversation_responded |-> PyTrue], 10, 2, <<>>)

\* mutant: a catalog in which Greeting needs weather_known and puts the
\* placeholder None back on it
initialize_actions_resetting ==
  << CheckWeather, SendEmail, BookHotel, SetReminder,
     SearchFlights, CreateCalendarEvent, PlanTrip, CheckAttendance,
     CheckSubjectAttendance, CheckMonthlyAttendance, CheckTimetable, CheckSubjectSchedule,
     CheckTimeSchedule, CheckCafeteriaMenu, CheckBreakfastMenu, CheckLunchMenu,
     CheckDinnerMenu, CheckSnackMenu, SearchInternet, GenerateAttendancePDF,
     GenerateTimetablePDF, GenerateCafeteriaPDF,
     Act("Greeting", [weather_known |-> PyTrue],
         [greeting_responded |-> PyTrue, weather_known |-> PyNone], 5, 1, <<>>),
     SmallTalk, Conversation >>

initialize_actions ==
  << CheckWeather, SendEmail, BookHotel, SetReminder,
     SearchFlights, CreateCalendarEvent, PlanTrip, CheckAttendance,
     CheckSubjectAttendance, CheckMonthlyAttendance, CheckTimetable, CheckSubjectSchedule,
     CheckTimeSchedule, CheckCafeteriaMenu, CheckBreakfastMenu, CheckLunchMenu,
     CheckDinnerMenu, CheckSnackMenu, SearchInternet, GenerateAttendancePDF,
     GenerateTimetablePDF, GenerateCafeteriaPDF, Greeting, SmallTalk,
     Conversation >>

-----------------------------------------------------------------------------
(* Other catalogs a KnowledgeBase can hold (AStarPlanner takes any          *)
(* KnowledgeBase; `actions` is a plain list attribute).  A catalog of the   *)
(* general specification is a sub-list of this pool, in pool order.         *)

\* reaches the goal fact g in one expensive step
Direct == Act("Direct", EmptyDict, [g |-> PyTrue], 20, 5, <<>>)

\* a cheap step that enables Finish and Extend
Prep == Act("Prep", EmptyDict, [p |-> PyTrue], 0, 1, <<>>)

Finish == Act("Finish", [p |-> PyTrue], [g |-> PyTrue], 0, 1, <<>>)

\* sets p and q at once, at a price
Both == Act("Both", EmptyDict, [p |-> PyTrue, q |-> PyTrue], 50, 0, <<"Prep">>)

Extend == Act("Extend", [p |-> PyTrue], [q |-> PyTrue], 0, 1, <<>>)

\* a placeholder (None) effect on g, as CheckWeather has on weather_location
Placeholder == Act("Placeholder", EmptyDict, [g |-> PyNone, q |-> PyTrue], 5, 1, <<>>)

\* needs a fact no action of the pool produces
Blocked == Act("Blocked", [h |-> PyTrue], [g |-> PyTrue, q |-> PyTrue], 10, 2, <<>>)

ActionPool == <<Direct, Prep, Finish, Both, Extend, Placeholder, Blocked>>

\* the sub-lists of `pool` (order kept) with at most n actions
RECURSIVE SubLists(_, _)
SubLists(pool, n) ==
  IF pool = <<>> \/ n = 0 THEN {<<>>}
  ELSE SubLists(Tail(pool), n)
       \cup {<<Head(pool)>> \o t : t \in SubLists(Tail(pool), n - 1)}

-----------------------------------------------------------------------------
(* Node (astar_planner.py) *)

Node(state, parent, action, g_cost, h_cost) ==
  [state |-> state, parent |-> parent, action |-> action,
   g_cost |-> g_cost, h_cost |-> h_cost, f_cost |-> g_cost + h_cost]

\* Node.__lt__ on the nodes named a and b in store ns
NodeLt(ns, a, b) == ns[a].f_cost < ns[b].f_cost

-----------------------------------------------------------------------------
(* heapq on a list of node indices.  Python positions are 0-based: position *)
(* pos is element pos + 1 of the sequence.                                  *)

RECURSIVE SiftDownLoop(_, _, _, _, _)
SiftDownLoop(ns, heap, newitem, startpos, pos) ==
  IF pos > startpos
  THEN LET parentpos == (pos - 1) \div 2
           parent == heap[parentpos + 1]
       IN IF NodeLt(ns, newitem, parent)
          THEN SiftDownLoop(ns, [heap EXCEPT ![pos + 1] = parent], newitem, startpos, parentpos)
          ELSE [heap EXCEPT ![pos + 1] = newitem]
  ELSE [heap EXCEPT ![pos + 1] = newitem]

siftdown(ns, heap, startpos, pos) == SiftDownLoop(ns, heap, heap[pos + 1], startpos, pos)

RECURSIVE SiftUpLoop(_, _, _, _, _)
SiftUpLoop(ns, heap, newitem, startpos, pos) ==
  LET endpos == Len(heap)
      childpos == 2 * pos + 1
      rightpos == childpos + 1
      pick == IF rightpos < endpos /\ ~NodeLt(ns, heap[childpos + 1], heap[rightpos + 1])
              THEN rightpos ELSE childpos
  IN IF childpos < endpos
     THEN SiftUpLoop(ns, [heap EXCEPT ![pos + 1] = heap[pick + 1]], newitem, startpos, pick)
     ELSE siftdown(ns, [heap EXCEPT ![pos + 1] = newitem], startpos, pos)

siftup(ns, heap, pos) == SiftUpLoop(ns, heap, heap[pos + 1], pos, pos)

heappush(ns, heap, item) == siftdown(ns, Append(heap, item), 0, Len(heap))

\* heappop's returned item
heappop_item(heap) == heap[1]

\* the heap heappop leaves
heappop_rest(ns, heap) ==
  LET lastelt == heap[Len(heap)]
      shorter == SubSeq(heap, 1, Len(heap) - 1)
  IN IF shorter = <<>> THEN <<>>
     ELSE siftup(ns, [shorter EXCEPT ![1] = lastelt], 0)

RECURSIVE HeapifyFrom(_, _, _)
HeapifyFrom(ns, heap, i) ==
  IF i < 0 THEN heap ELSE HeapifyFrom(ns, siftup(ns, heap, i), i - 1)

\* mutant: the list left as it is after open_set[i] = new_node
heapify_skipped(ns, heap) == heap

heapify(ns, heap) == HeapifyFrom(ns, heap, (Len(heap) \div 2) - 1)

-----------------------------------------------------------------------------
(* AStarPlanner helpers (astar_planner.py) *)

\* mutant: a goal counts as unsatisfied only when its fact is absent
calculate_heuristic_absent(state, goal_state) ==
  LET unsatisfied_goals == Cardinality({goal \in goal_state.goals : ~has_fact(state, goal)})
  IN (unsatisfied_goals * 15) * 2

\* unsatisfied_goals * 1.5 * 2.0, in tenths
calculate_heuristic(state, goal_state) ==
  LET unsatisfied_goals == Cardinality({goal \in goal_state.goals : ~is_goal_satisfied(state, goal)})
  IN (unsatisfied_goals * 15) * 2

\* mutant: any() where the loop of lines 194-197 demands every goal
is_goal_reached_any(state, goal_state) ==
  IF goal_state.goals = {} THEN FALSE
  ELSE \E goal \in goal_state.goals : is_goal_satisfied(state, goal)

\* mutant: the goals looked up in goal_state itself instead of in state
is_goal_reached_in_goal_state(state, goal_state) ==
  IF goal_state.goals = {} THEN FALSE
  ELSE \A goal \in goal_state.goals : is_goal_satisfied(goal_state, goal)

is_goal_reached(state, goal_state) ==
  IF goal_state.goals = {} THEN FALSE
  ELSE \A goal \in goal_state.goals : is_goal_satisfied(state, goal)

\* mutant: each step records the parent's action instead of the node's own
RECURSIVE reconstruct_path_parent_action(_, _)
reconstruct_path_parent_action(ns, n) ==
  IF ns[n].parent = 0 THEN <<>>
  ELSE reconstruct_path_parent_action(ns, ns[n].parent)
       \o (IF ns[ns[n].parent].action # NoAction THEN <<ns[ns[n].parent].action>> ELSE <<>>)

\* mutant: the walk takes in the root node and its None action as well
RECURSIVE reconstruct_path_with_root(_, _)
reconstruct_path_with_root(ns, n) ==
  IF ns[n].parent = 0 THEN <<ns[n].action>>
  ELSE reconstruct_path_with_root(ns, ns[n].parent) \o <<ns[n].action>>

\* mutant: path.append where line 233 has path.insert(0, ...)
RECURSIVE reconstruct_path_appended(_, _)
reconstruct_path_appended(ns, n) ==
  IF ns[n].parent = 0 THEN <<>>
  ELSE (IF ns[n].action # NoAction THEN <<ns[n].action>> ELSE <<>>)
       \o reconstruct_path_appended(ns, ns[n].parent)

\* walks parent links from node n of store ns; `if current.action` skips None
RECURSIVE reconstruct_path(_, _)
reconstruct_path(ns, n) ==
  IF ns[n].parent = 0 THEN <<>>
  ELSE reconstruct_path(ns, ns[n].parent)
       \o (IF ns[n].action # NoAction THEN <<ns[n].action>> ELSE <<>>)

RECURSIVE ValidateFrom(_, _)
ValidateFrom(plan, current_state) ==
  IF plan = <<>> THEN TRUE
  ELSE IF ~check_preconditions(Head(plan), current_state) THEN FALSE
  ELSE ValidateFrom(Tail(plan), apply_action_effects(Head(plan), current_state))

validate_plan(plan, initial_state) == ValidateFrom(plan, copy(initial_state))

\* mutant: the iteration bound left out of the loop test
LoopCondition_unbounded(open, iter, maxiter) == open # <<>>

\* the `while open_set and iteration < max_iterations` test
LoopCondition(open, iter, maxiter) == open # <<>> /\ iter < maxiter

\* mutant: the scan also takes a queued node of the same f_cost
FindWorse_or_equal(ns, open, new_node, i) ==
  LET worse == {j \in i..Len(open) : /\ StateEq(ns[open[j]].state, new_node.state)
                                     /\ new_node.f_cost <= ns[open[j]].f_cost}
  IN IF worse = {} THEN 0 ELSE CHOOSE j \in worse : \A k \in worse : j <= k

\* the index scan of lines 147-151 from position i on: the first queued node
\* with an equal state and a strictly greater f_cost, or 0
FindWorse(ns, open, new_node, i) ==
  LET worse == {j \in i..Len(open) : /\ StateEq(ns[open[j]].state, new_node.state)
                                     /\ new_node.f_cost < ns[open[j]].f_cost}
  IN IF worse = {} THEN 0 ELSE CHOOSE j \in worse : \A k \in worse : j <= k

\* lines 132-139: the node built for successor (new_state, action) of node cur
NewNode(ns, cur, new_state, action, goal_state) ==
  LET action_cost == estimate_action_cost(action)
      new_g_cost == ns[cur].g_cost + action_cost
      new_h_cost == calculate_heuristic(new_state, goal_state)
  IN Node(new_state, cur, action, new_g_cost, new_h_cost)

-----------------------------------------------------------------------------
(* plan() run from call to return with nothing else running.  The locals   *)
(* are the record L = [nodes, open, closed, visited, queued, iter,          *)
(* returned_at, result].  closed and visited are Python sets of State: a    *)
(* set finds an element by __hash__ and __eq__, and two states are == just  *)
(* when their State_hash is the same, so the sets hold State_hash values.   *)
(* queued is the open queue read by state: for each State_hash, the queued  *)
(* nodes of that state.  It is kept in step with every push, replacement    *)
(* and pop, and lets the scan of lines 147-151 be skipped when no queued    *)
(* node of the state has a greater f_cost, which is when the scan finds     *)
(* nothing.                                                                 *)

QueuedAdd(q, h, n) ==
  IF h \in DOMAIN q THEN [q EXCEPT ![h] = @ \cup {n}] ELSE (h :> {n}) @@ q

QueuedDel(q, h, n) == [q EXCEPT ![h] = @ \ {n}]

\* lines 122-151 for the successor list succ of the popped node cur
RECURSIVE PlanSuccessors(_, _, _, _)
PlanSuccessors(L, cur, succ, goal_state) ==
  IF succ = <<>> THEN L
  ELSE LET new_state == Head(succ).new_state
           h == State_hash(new_state)
           new_node == NewNode(L.nodes, cur, new_state, Head(succ).action, goal_state)
           stored == Append(L.nodes, new_node)
           i == IF \E n \in L.queued[h] : new_node.f_cost < L.nodes[n].f_cost
                THEN FindWorse(L.nodes, L.open, new_node, 1)
                ELSE 0
           L2 == IF h \in L.closed THEN L
                 ELSE IF h \notin L.visited
                 THEN [L EXCEPT !.nodes = stored,
                                !.open = heappush(stored, L.open, Len(stored)),
                                !.visited = L.visited \cup {h},
                                !.queued = QueuedAdd(L.queued, h, Len(stored))]
                 ELSE IF i # 0
                 THEN [L EXCEPT !.nodes = stored,
                                !.open = heapify(stored, [L.open EXCEPT ![i] = Len(stored)]),
                                !.queued = QueuedAdd(QueuedDel(L.queued, h, L.open[i]),
                                                     h, Len(stored))]
                 ELSE L
       IN PlanSuccessors(L2, cur, Tail(succ), goal_state)

\* lines 99-154: one pass of the loop, or the return after it
PlanPass(L, actions, goal_state, maxiter) ==
  IF ~LoopCondition(L.open, L.iter, maxiter)
  THEN [L EXCEPT !.returned_at = "no_plan_found", !.result = <<>>]
  ELSE LET n == heappop_item(L.open)
           st == L.nodes[n].state
           popped == [L EXCEPT !.open = heappop_rest(L.nodes, L.open),
                               !.queued = QueuedDel(L.queued, State_hash(st), n),
                               !.iter = L.iter + 1]
       IN IF is_goal_reached(st, goal_state)
          THEN [popped EXCEPT !.returned_at = "goal_reached",
                              !.result = reconstruct_path(L.nodes, n)]
          ELSE PlanSuccessors([popped EXCEPT !.closed = L.closed \cup {State_hash(st)}], n,
                              generate_successor_states(st, get_available_actions(actions)),
                              goal_state)

\* up to k passes of the loop; the passes are halved so that the evaluation
\* nests to depth log k
RECURSIVE PlanLoop(_, _, _, _, _)
PlanLoop(L, actions, goal_state, maxiter, k) ==
  IF L.returned_at # "" THEN L
  ELSE IF k = 1 THEN PlanPass(L, actions, goal_state, maxiter)
  ELSE PlanLoop(PlanLoop(L, actions, goal_state, maxiter, k \div 2),
                actions, goal_state, maxiter, k - (k \div 2))

\* lines 81-154: the locals at the return
plan_run(actions, current_state, goal_state, maxiter) ==
  LET start_node == Node(copy(current_state), 0, NoAction, 0,
                         calculate_heuristic(current_state, goal_state))
      h == State_hash(start_node.state)
      L == [nodes |-> <<start_node>>, open |-> <<1>>, closed |-> {}, visited |-> {h},
            queued |-> (h :> {1}), iter |-> 0, returned_at |-> "", result |-> <<>>]
  IN IF is_goal_reached(current_state, goal_state)
     THEN [L EXCEPT !.returned_at = "goal_already_satisfied"]
     ELSE PlanLoop(L, actions, goal_state, maxiter, maxiter + 1)

\* lines 81-154: the list plan() returns
plan_alone(actions, current_state, goal_state, maxiter) ==
  plan_run(actions, current_state, goal_state, maxiter).result

-----------------------------------------------------------------------------
(* plan(): one invocation r *)

Runs == {1, 2}

\* mutant: closed_set kept for all invocations together and reset at every call
Call_clears_all_closed(r) ==
  /\ pc[r] = "idle"
  /\ IF is_goal_reached(arg_state[r], arg_goal[r])
     THEN /\ result' = [result EXCEPT ![r] = <<>>]
          /\ returned_at' = [returned_at EXCEPT ![r] = "goal_already_satisfied"]
          /\ pc' = [pc EXCEPT ![r] = "done"]
          /\ UNCHANGED <<nodes, open_set, closed_set, visited_states, iteration>>
     ELSE LET start_node == Node(copy(arg_state[r]), 0, NoAction, 0,
                                 calculate_heuristic(arg_state[r], arg_goal[r]))
          IN /\ nodes' = [nodes EXCEPT ![r] = <<start_node>>]
             /\ open_set' = [open_set EXCEPT ![r] = <<1>>]
             /\ closed_set' = [x \in Runs |-> {}]
             /\ visited_states' = [visited_states EXCEPT ![r] = {start_node.state}]
             /\ iteration' = [iteration EXCEPT ![r] = 0]
             /\ pc' = [pc EXCEPT ![r] = "loop"]
             /\ UNCHANGED <<result, returned_at>>
  /\ UNCHANGED <<kb, sm_current, arg_state, arg_goal, max_iterations, current_node, successors>>
  /\ UNCHANGED object_vars

\* lines 81-97
Call(r) ==
  /\ pc[r] = "idle"
  /\ IF is_goal_reached(arg_state[r], arg_goal[r])
     THEN /\ result' = [result EXCEPT ![r] = <<>>]
          /\ returned_at' = [returned_at EXCEPT ![r] = "goal_already_satisfied"]
          /\ pc' = [pc EXCEPT ![r] = "done"]
          /\ UNCHANGED <<nodes, open_set, closed_set, visited_states, iteration>>
     ELSE LET start_node == Node(copy(arg_state[r]), 0, NoAction, 0,
                                 calculate_heuristic(arg_state[r], arg_goal[r]))
          IN /\ nodes' = [nodes EXCEPT ![r] = <<start_node>>]
             /\ open_set' = [open_set EXCEPT ![r] = <<1>>]
             /\ closed_set' = [closed_set EXCEPT ![r] = {}]
             /\ visited_states' = [visited_states EXCEPT ![r] = {start_node.state}]
             /\ iteration' = [iteration EXCEPT ![r] = 0]
             /\ pc' = [pc EXCEPT ![r] = "loop"]
             /\ UNCHANGED <<result, returned_at>>
  /\ UNCHANGED <<kb, sm_current, arg_state, arg_goal, max_iterations, current_node, successors>>
  /\ UNCHANGED object_vars

\* mutant: get_available_actions hands out self.actions itself and the
\* expansion consumes the list it is given
PopStep_drains_catalog(r, n, rest) ==
  /\ iteration' = [iteration EXCEPT ![r] = @ + 1]
  /\ open_set' = [open_set EXCEPT ![r] = rest]
  /\ current_node' = [current_node EXCEPT ![r] = n]
  /\ LET st == nodes[r][n].state
     IN IF is_goal_reached(st, arg_goal[r])
        THEN /\ result' = [result EXCEPT ![r] = reconstruct_path(nodes[r], n)]
             /\ returned_at' = [returned_at EXCEPT ![r] = "goal_reached"]
             /\ pc' = [pc EXCEPT ![r] = "done"]
             /\ UNCHANGED <<kb, closed_set, successors>>
        ELSE LET succ == generate_successor_states(st, get_available_actions(kb))
             IN /\ closed_set' = [closed_set EXCEPT ![r] = StateSetAdd(@, st)]
                /\ successors' = [successors EXCEPT ![r] = succ]
                /\ pc' = [pc EXCEPT ![r] = IF succ = <<>> THEN "loop" ELSE "succ"]
                /\ kb' = <<>>
                /\ UNCHANGED <<result, returned_at>>
  /\ UNCHANGED <<sm_current, arg_state, arg_goal, max_iterations, nodes, visited_states>>
  /\ UNCHANGED object_vars

\* lines 100-120: what the loop does with the popped node n, `rest` being the
\* heap heappop leaves
PopStep(r, n, rest) ==
  /\ iteration' = [iteration EXCEPT ![r] = @ + 1]
  /\ open_set' = [open_set EXCEPT ![r] = rest]
  /\ current_node' = [current_node EXCEPT ![r] = n]
  /\ LET st == nodes[r][n].state
     IN IF is_goal_reached(st, arg_goal[r])
        THEN /\ result' = [result EXCEPT ![r] = reconstruct_path(nodes[r], n)]
             /\ returned_at' = [returned_at EXCEPT ![r] = "goal_reached"]
             /\ pc' = [pc EXCEPT ![r] = "done"]
             /\ UNCHANGED <<closed_set, successors>>
        ELSE LET succ == generate_successor_states(st, get_available_actions(kb))
             IN /\ closed_set' = [closed_set EXCEPT ![r] = StateSetAdd(@, st)]
                /\ successors' = [successors EXCEPT ![r] = succ]
                /\ pc' = [pc EXCEPT ![r] = IF succ = <<>> THEN "loop" ELSE "succ"]
                /\ UNCHANGED <<result, returned_at>>
  /\ UNCHANGED <<kb, sm_current, arg_state, arg_goal, max_iterations, nodes, visited_states>>
  /\ UNCHANGED object_vars

\* mutant: among the queued nodes of lowest f_cost, any one is popped
Pop_any_lowest(r) ==
  /\ pc[r] = "loop"
  /\ LoopCondition(open_set[r], iteration[r], max_iterations[r])
  /\ \E i \in 1..Len(open_set[r]) :
        /\ \A j \in 1..Len(open_set[r]) : ~NodeLt(nodes[r], open_set[r][j], open_set[r][i])
        /\ PopStep(r, open_set[r][i],
                   heapify(nodes[r], SubSeq(open_set[r], 1, i - 1)
                                     \o SubSeq(open_set[r], i + 1, Len(open_set[r]))))

\* lines 99-120: one pass of the loop head, up to the successor list
Pop(r) ==
  /\ pc[r] = "loop"
  /\ LoopCondition(open_set[r], iteration[r], max_iterations[r])
  /\ PopStep(r, heappop_item(open_set[r]), heappop_rest(nodes[r], open_set[r]))

\* lines 122-151: one pass of the loop over successors
Successor(r) ==
  /\ pc[r] = "succ"
  /\ LET new_state == Head(successors[r]).new_state
         action == Head(successors[r]).action
         new_node == NewNode(nodes[r], current_node[r], new_state, action, arg_goal[r])
         stored == Append(nodes[r], new_node)
         i == FindWorse(nodes[r], open_set[r], new_node, 1)
     IN /\ successors' = [successors EXCEPT ![r] = Tail(@)]
        /\ pc' = [pc EXCEPT ![r] = IF Tail(successors[r]) = <<>> THEN "loop" ELSE "succ"]
        /\ IF InStateSet(new_state, closed_set[r])
           THEN UNCHANGED <<nodes, open_set, visited_states>>
           ELSE IF ~InStateSet(new_state, visited_states[r])
           THEN /\ nodes' = [nodes EXCEPT ![r] = stored]
                /\ open_set' = [open_set EXCEPT ![r] = heappush(stored, @, Len(stored))]
                /\ visited_states' = [visited_states EXCEPT ![r] = StateSetAdd(@, new_state)]
           ELSE IF i # 0
           THEN /\ nodes' = [nodes EXCEPT ![r] = stored]
                /\ open_set' = [open_set EXCEPT ![r] =
                                  heapify(stored, [@ EXCEPT ![i] = Len(stored)])]
                /\ UNCHANGED visited_states
           ELSE UNCHANGED <<nodes, open_set, visited_states>>
  /\ UNCHANGED <<kb, sm_current, arg_state, arg_goal, max_iterations, closed_set,
                 iteration, current_node, result, returned_at>>
  /\ UNCHANGED object_vars

\* lines 153-154
NoPlan(r) ==
  /\ pc[r] = "loop"
  /\ ~LoopCondition(open_set[r], iteration[r], max_iterations[r])
  /\ result' = [result EXCEPT ![r] = <<>>]
  /\ returned_at' = [returned_at EXCEPT ![r] = "no_plan_found"]
  /\ pc' = [pc EXCEPT ![r] = "done"]
  /\ UNCHANGED <<kb, sm_current, arg_state, arg_goal, max_iterations, nodes, open_set,
                 closed_set, visited_states, iteration, current_node, successors>>
  /\ UNCHANGED object_vars

Next == \E r \in Runs : Call(r) \/ Pop(r) \/ Successor(r) \/ NoPlan(r)

-----------------------------------------------------------------------------
(* Inputs *)

MaxCatalog == 3
SmallMaxIterations == 2
DefaultMaxIterations == 1000

GoalState(G) == [facts |-> EmptyDict, goals |-> G]

\* facts a caller may seed: p and h absent or True; g absent, True, 1 or "true"
InitialFacts ==
  { [k \in {x \in {"p", "h", "g"} : c[x] # "absent"} |-> c[k]] :
      c \in { d \in [{"p", "h", "g"} -> {"absent", PyTrue, PyOne, PyStrTrue}] :
                d["p"] \in {"absent", PyTrue} /\ d["h"] \in {"absent", PyTrue} } }

GoalSets == SUBSET {"g", "q"}

\* no direct call has been made and the caller holds no State object
NoCall ==
  [call |-> "none", obj |-> 0, key |-> "", value |-> PyNone, action |-> NoAction,
   plan |-> <<>>, before |-> <<>>, ret |-> FALSE, ret_kb |-> FALSE, out |-> <<>>]

NoObjects ==
  /\ mem = [dicts |-> <<>>, sets |-> <<>>]
  /\ objs = <<>>
  /\ last = NoCall
  /\ ops = 0

\* what every invocation holds before plan() is entered
Fresh ==
  /\ NoObjects
  /\ sm_current = NewState(EmptyDict)
  /\ nodes = [r \in Runs |-> <<>>]
  /\ open_set = [r \in Runs |-> <<>>]
  /\ closed_set = [r \in Runs |-> {}]
  /\ visited_states = [r \in Runs |-> {}]
  /\ iteration = [r \in Runs |-> 0]
  /\ current_node = [r \in Runs |-> 0]
  /\ successors = [r \in Runs |-> <<>>]
  /\ result = [r \in Runs |-> <<>>]
  /\ returned_at = [r \in Runs |-> "none"]

\* one invocation, any catalog from the pool
Init ==
  /\ kb \in SubLists(ActionPool, MaxCatalog)
  /\ pc = [r \in Runs |-> IF r = 1 THEN "idle" ELSE "off"]
  /\ \E f \in InitialFacts, G \in GoalSets, m \in {SmallMaxIterations, DefaultMaxIterations} :
        /\ arg_state = [r \in Runs |-> IF r = 1 THEN NewState(f) ELSE NewState(EmptyDict)]
        /\ arg_goal = [r \in Runs |-> IF r = 1 THEN GoalState(G) ELSE GoalState({})]
        /\ max_iterations = [r \in Runs |-> IF r = 1 THEN m ELSE DefaultMaxIterations]
  /\ Fresh

Spec == Init /\ [][Next]_vars

\* one invocation on the repository's catalog.  An expansion there yields up
\* to 18 successors, so the specification follows plan() for its first MaxPops
\* pops only.
MaxPops == 3

RepoFacts ==
  { EmptyDict,
    [location_valid |-> PyTrue, location |-> PyStrPune],
    [location_valid |-> PyTrue, location |-> PyStrTrue],
    [weather_known |-> PyTrue],
    [attendance_known |-> PyOne, monthly_attendance_known |-> PyTrue] }

RepoGoalSets ==
  { {}, {"weather_known"}, {"attendance_known", "monthly_attendance_known"},
    {"greeting_responded", "weather_known"} }

InitRepo ==
  /\ kb = initialize_actions
  /\ pc = [r \in Runs |-> IF r = 1 THEN "idle" ELSE "off"]
  /\ \E f \in RepoFacts, G \in RepoGoalSets, m \in {SmallMaxIterations, DefaultMaxIterations} :
        /\ arg_state = [r \in Runs |-> IF r = 1 THEN NewState(f) ELSE NewState(EmptyDict)]
        /\ arg_goal = [r \in Runs |-> IF r = 1 THEN GoalState(G) ELSE GoalState({})]
        /\ max_iterations = [r \in Runs |-> IF r = 1 THEN m ELSE DefaultMaxIterations]
  /\ Fresh

PopCapped(r) == iteration[r] < MaxPops /\ Pop(r)

NextRepo == \E r \in Runs : Call(r) \/ PopCapped(r) \/ Successor(r) \/ NoPlan(r)

SpecRepo == InitRepo /\ [][NextRepo]_vars

\* one invocation that runs to its return: the call is synchronous and nothing
\* suspends it.  The seeded facts leave out the g values True and "true".
FairFacts == {f \in InitialFacts : "g" \in DOMAIN f => f["g"] = PyOne}

InitFair ==
  /\ kb \in SubLists(ActionPool, MaxCatalog)
  /\ pc = [r \in Runs |-> IF r = 1 THEN "idle" ELSE "off"]
  /\ \E f \in FairFacts, G \in GoalSets, m \in {SmallMaxIterations, DefaultMaxIterations} :
        /\ arg_state = [r \in Runs |-> IF r = 1 THEN NewState(f) ELSE NewState(EmptyDict)]
        /\ arg_goal = [r \in Runs |-> IF r = 1 THEN GoalState(G) ELSE GoalState({})]
        /\ max_iterations = [r \in Runs |-> IF r = 1 THEN m ELSE DefaultMaxIterations]
  /\ Fresh

SpecFair == InitFair /\ [][Next]_vars /\ WF_vars(Next)

\* two invocations on one KnowledgeBase and one StateManager, each with its
\* own arguments, their steps interleaved
PairPool == <<Direct, Prep, Finish, Extend>>

PairFacts == {EmptyDict, [g |-> PyTrue], [p |-> PyTrue]}

PairGoalSets == {{"g"}, {"g", "q"}}

InitPair ==
  /\ kb \in SubLists(PairPool, MaxCatalog)
  /\ pc = [r \in Runs |-> "idle"]
  /\ arg_state \in [Runs -> {NewState(f) : f \in PairFacts}]
  /\ arg_goal \in [Runs -> {GoalState(G) : G \in PairGoalSets}]
  /\ max_iterations \in [Runs -> {SmallMaxIterations, DefaultMaxIterations}]
  /\ Fresh

SpecPair == InitPair /\ [][Next]_vars

\* the caller's table from intent name to goal fact
intent_to_goal ==
  [ CheckWeather |-> "weather_known",
    SendEmail |-> "email_sent",
    BookHotel |-> "hotel_booked",
    SetReminder |-> "reminder_set",
    SearchFlights |-> "flights_found",
    CreateCalendarEvent |-> "calendar_event_created",
    PlanTrip |-> "trip_planned",
    CheckAttendance |-> "attendance_known",
    CheckSubjectAttendance |-> "subject_attendance_known",
    CheckMonthlyAttendance |-> "monthly_attendance_known",
    CheckTimetable |-> "timetable_known",
    CheckSubjectSchedule |-> "subject_schedule_known",
    CheckTimeSchedule |-> "time_schedule_known",
    CheckCafeteriaMenu |-> "cafeteria_menu_known",
    CheckBreakfastMenu |-> "breakfast_menu_known",
    CheckLunchMenu |-> "lunch_menu_known",
    CheckDinnerMenu |-> "dinner_menu_known",
    CheckSnackMenu |-> "snack_menu_known",
    SearchInternet |-> "internet_search_complete",
    GenerateAttendancePDF |-> "attendance_pdf_sent",
    GenerateTimetablePDF |-> "timetable_pdf_sent",
    GenerateCafeteriaPDF |-> "cafeteria_pdf_sent",
    Greeting |-> "greeting_responded",
    SmallTalk |-> "smalltalk_responded",
    Conversation |-> "conversation_responded" ]

\* the facts the caller seeds for an intent whose parameters were all
\* extracted: "<param>_valid" is True for each of them, which is what the
\* intent's own action requires
SeededFacts(intent) == get_action(initialize_actions, intent).preconditions

\* one request: the repository catalog, the intent's seeded facts, its goal
InitIntent ==
  /\ kb = initialize_actions
  /\ pc = [r \in Runs |-> IF r = 1 THEN "idle" ELSE "off"]
  /\ \E intent \in DOMAIN intent_to_goal,
        m \in {1, SmallMaxIterations, DefaultMaxIterations} :
        /\ arg_state = [r \in Runs |-> IF r = 1 THEN NewState(SeededFacts(intent))
                                                 ELSE NewState(EmptyDict)]
        /\ arg_goal = [r \in Runs |-> IF r = 1 THEN GoalState({intent_to_goal[intent]})
                                                ELSE GoalState({})]
        /\ max_iterations = [r \in Runs |-> IF r = 1 THEN m ELSE DefaultMaxIterations]
  /\ Fresh

\* plan() from its call to its return, taken as one step: the call is
\* synchronous and its locals are gone when it returns
PlanCall(r) ==
  /\ pc[r] = "idle"
  /\ \E L \in {plan_run(kb, arg_state[r], arg_goal[r], max_iterations[r])} :
        /\ result' = [result EXCEPT ![r] = L.result]
        /\ returned_at' = [returned_at EXCEPT ![r] = L.returned_at]
        /\ iteration' = [iteration EXCEPT ![r] = L.iter]
  /\ pc' = [pc EXCEPT ![r] = "done"]
  /\ UNCHANGED <<kb, sm_current, arg_state, arg_goal, max_iterations, nodes, open_set,
                 closed_set, visited_states, current_node, successors>>
  /\ UNCHANGED object_vars

NextIntent == \E r \in Runs : PlanCall(r)

SpecIntent == InitIntent /\ [][NextIntent]_vars

\* one request on the repository catalog with any of the seeded facts and any
\* set of the goals below, plan() taken as one step; the planner is built
\* with a small max_iterations
CallMaxIterations == 8

RepoCallGoals ==
  SUBSET {"weather_known", "greeting_responded", "attendance_known", "monthly_attendance_known"}

InitRepoCall ==
  /\ kb = initialize_actions
  /\ pc = [r \in Runs |-> IF r = 1 THEN "idle" ELSE "off"]
  /\ \E f \in RepoFacts, G \in RepoCallGoals, m \in {SmallMaxIterations, CallMaxIterations} :
        /\ arg_state = [r \in Runs |-> IF r = 1 THEN NewState(f) ELSE NewState(EmptyDict)]
        /\ arg_goal = [r \in Runs |-> IF r = 1 THEN GoalState(G) ELSE GoalState({})]
        /\ max_iterations = [r \in Runs |-> IF r = 1 THEN m ELSE DefaultMaxIterations]
  /\ Fresh

SpecRepoCall == InitRepoCall /\ [][NextIntent]_vars

-----------------------------------------------------------------------------
(* State objects as Python holds them: a State refers to a dict object and *)
(* a set object of mem.  ref = [facts |-> dict index, goals |-> set index]. *)

\* the facts and goals a State object holds at the moment
Deref(m, ref) == [facts |-> m.dicts[ref.facts], goals |-> m.sets[ref.goals]]

DictDel(d, k) == [x \in (DOMAIN d) \ {k} |-> d[x]]

\* State.__init__(facts): `facts or {}` keeps a non-empty dict object and
\* puts a new dict in place of an empty one; goals is a new set
State_init(m, facts_id) ==
  LET m1 == IF m.dicts[facts_id] = EmptyDict
            THEN [m EXCEPT !.dicts = Append(@, EmptyDict)] ELSE m
      fid == IF m.dicts[facts_id] = EmptyDict THEN Len(m1.dicts) ELSE facts_id
      m2 == [m1 EXCEPT !.sets = Append(@, {})]
  IN [mem |-> m2, ref |-> [facts |-> fid, goals |-> Len(m2.sets)]]

\* mutant: State(self.facts) with goals bound to self.goals: no deepcopy and
\* no set copy
copy_obj_aliased(m, ref) ==
  LET st == State_init(m, ref.facts)
  IN [mem |-> st.mem, ref |-> [facts |-> st.ref.facts, goals |-> ref.goals]]

\* State.copy: deepcopy of the facts dict, State(...) on it, a copy of goals
copy_obj(m, ref) ==
  LET m1 == [m EXCEPT !.dicts = Append(@, m.dicts[ref.facts])]
      st == State_init(m1, Len(m1.dicts))
      m2 == [st.mem EXCEPT !.sets = Append(@, m.sets[ref.goals])]
  IN [mem |-> m2, ref |-> [facts |-> st.ref.facts, goals |-> Len(m2.sets)]]

set_fact_obj(m, ref, fact_name, value) ==
  [m EXCEPT !.dicts[ref.facts] = DictSet(@, fact_name, value)]

remove_fact_obj(m, ref, fact_name) ==
  IF fact_name \in DOMAIN m.dicts[ref.facts]
  THEN [m EXCEPT !.dicts[ref.facts] = DictDel(@, fact_name)]
  ELSE m

add_goal_obj(m, ref, goal) == [m EXCEPT !.sets[ref.goals] = @ \cup {goal}]

remove_goal_obj(m, ref, goal) == [m EXCEPT !.sets[ref.goals] = @ \ {goal}]

\* mutant: the effects written into the State that was passed in
apply_action_effects_in_place(m, action, ref) ==
  [mem |-> [m EXCEPT !.dicts[ref.facts] = apply_action_effects(action, Deref(m, ref)).facts],
   ref |-> ref]

\* StateManager.apply_action_effects on objects: the effects are written
\* into state.copy(), which is returned
apply_action_effects_obj(m, action, ref) ==
  LET c == copy_obj(m, ref)
  IN [mem |-> [c.mem EXCEPT !.dicts[c.ref.facts] =
                  apply_action_effects(action, Deref(c.mem, c.ref)).facts],
      ref |-> c.ref]

\* KnowledgeBase.check_preconditions: state is a plain dict
kb_check_preconditions(action, state) ==
  \A fact_name \in DOMAIN action.preconditions :
     /\ fact_name \in DOMAIN state
     /\ PyEq(state[fact_name], action.preconditions[fact_name])

\* KnowledgeBase.apply_effects: state is a plain dict; the result is a new
\* dict (state.copy()) in which a None effect is stored as True
apply_effects(action, state) ==
  [x \in (DOMAIN state) \cup (DOMAIN action.effects) |->
      IF x \in DOMAIN action.effects
      THEN (IF action.effects[x] = PyNone THEN PyTrue ELSE action.effects[x])
      ELSE state[x]]

apply_effects_obj(m, action, dict_id) ==
  LET m1 == [m EXCEPT !.dicts = Append(@, m.dicts[dict_id])]
  IN [mem |-> [m1 EXCEPT !.dicts[Len(m1.dicts)] = apply_effects(action, @)],
      id |-> Len(m1.dicts)]

\* mutant: every action is tested on the State the replay started from, the
\* effects never applied
RECURSIVE ValidateObjFrom_unapplied(_, _, _)
ValidateObjFrom_unapplied(m, plan, cur) ==
  IF plan = <<>> THEN [mem |-> m, ret |-> TRUE]
  ELSE IF ~check_preconditions(Head(plan), Deref(m, cur)) THEN [mem |-> m, ret |-> FALSE]
  ELSE ValidateObjFrom_unapplied(m, Tail(plan), cur)

\* validate_plan on objects: the replay starts from initial_state.copy() and
\* goes on with the State each apply_action_effects returns
RECURSIVE ValidateObjFrom(_, _, _)
ValidateObjFrom(m, plan, cur) ==
  IF plan = <<>> THEN [mem |-> m, ret |-> TRUE]
  ELSE IF ~check_preconditions(Head(plan), Deref(m, cur)) THEN [mem |-> m, ret |-> FALSE]
  ELSE LET a == apply_action_effects_obj(m, Head(plan), cur)
       IN ValidateObjFrom(a.mem, Tail(plan), a.ref)

validate_plan_obj(m, plan, ref) ==
  LET c == copy_obj(m, ref) IN ValidateObjFrom(c.mem, plan, c.ref)

\* the objects of m that existed in m0; what a call allocated and did not
\* return is unreachable once the call is over
Surviving(m, m0) ==
  [dicts |-> SubSeq(m.dicts, 1, Len(m0.dicts)), sets |-> SubSeq(m.sets, 1, Len(m0.sets))]

-----------------------------------------------------------------------------
(* plan() on State objects: every node holds a reference to its State, and  *)
(* every read of a State goes through the object store.                     *)

\* the node store with each node's State read at the moment
NodesAt(m, ns) == [n \in 1..Len(ns) |-> [ns[n] EXCEPT !.state = Deref(m, @)]]

\* `state in some_set` for a set of State objects
InRefSet(m, ref, S) == InStateSet(Deref(m, ref), {Deref(m, c) : c \in S})

\* StateManager.generate_successor_states on objects: one new State per
\* applicable action, in catalog order
RECURSIVE generate_successor_states_obj(_, _, _)
generate_successor_states_obj(m, ref, available_actions) ==
  IF available_actions = <<>> THEN [mem |-> m, out |-> <<>>]
  ELSE IF check_preconditions(Head(available_actions), Deref(m, ref))
  THEN LET a == apply_action_effects_obj(m, Head(available_actions), ref)
           rest == generate_successor_states_obj(a.mem, ref, Tail(available_actions))
       IN [mem |-> rest.mem,
           out |-> <<[new_state |-> a.ref, action |-> Head(available_actions)]>> \o rest.out]
  ELSE generate_successor_states_obj(m, ref, Tail(available_actions))

\* lines 122-151 for the successor list succ of the popped node cur
RECURSIVE PlanSuccessorsObj(_, _, _, _)
PlanSuccessorsObj(L, cur, succ, goal_ref) ==
  IF succ = <<>> THEN L
  ELSE LET new_ref == Head(succ).new_state
           by_value == NewNode(L.nodes, cur, Deref(L.mem, new_ref), Head(succ).action,
                               Deref(L.mem, goal_ref))
           new_node == [by_value EXCEPT !.state = new_ref]
           stored == Append(L.nodes, new_node)
           i == FindWorse(NodesAt(L.mem, L.nodes), L.open, by_value, 1)
           L2 == IF InRefSet(L.mem, new_ref, L.closed) THEN L
                 ELSE IF ~InRefSet(L.mem, new_ref, L.visited)
                 THEN [L EXCEPT !.nodes = stored,
                                !.open = heappush(stored, L.open, Len(stored)),
                                !.visited = L.visited \cup {new_ref}]
                 ELSE IF i # 0
                 THEN [L EXCEPT !.nodes = stored,
                                !.open = heapify(stored, [L.open EXCEPT ![i] = Len(stored)])]
                 ELSE L
       IN PlanSuccessorsObj(L2, cur, Tail(succ), goal_ref)

\* lines 99-154 on objects
RECURSIVE PlanLoopObj(_, _, _, _)
PlanLoopObj(L, actions, goal_ref, maxiter) ==
  IF ~LoopCondition(L.open, L.iter, maxiter)
  THEN [L EXCEPT !.returned_at = "no_plan_found", !.result = <<>>]
  ELSE LET n == heappop_item(L.open)
           ref == L.nodes[n].state
           popped == [L EXCEPT !.open = heappop_rest(L.nodes, L.open), !.iter = L.iter + 1]
       IN IF is_goal_reached(Deref(L.mem, ref), Deref(L.mem, goal_ref))
          THEN [popped EXCEPT !.returned_at = "goal_reached",
                              !.result = reconstruct_path(L.nodes, n)]
          ELSE LET s == generate_successor_states_obj(L.mem, ref, get_available_actions(actions))
               IN PlanLoopObj(PlanSuccessorsObj([popped EXCEPT !.mem = s.mem,
                                                               !.closed = L.closed \cup {ref}],
                                                n, s.out, goal_ref),
                              actions, goal_ref, maxiter)

\* lines 81-154 on the State objects current_ref and goal_ref: the store and
\* the locals at the return
plan_obj(m, actions, current_ref, goal_ref, maxiter) ==
  LET c == copy_obj(m, current_ref)
      start_node == Node(c.ref, 0, NoAction, 0,
                         calculate_heuristic(Deref(m, current_ref), Deref(m, goal_ref)))
      L == [mem |-> c.mem, nodes |-> <<start_node>>, open |-> <<1>>, closed |-> {},
            visited |-> {c.ref}, iter |-> 0, returned_at |-> "", result |-> <<>>]
  IN IF is_goal_reached(Deref(m, current_ref), Deref(m, goal_ref))
     THEN [L EXCEPT !.mem = m, !.returned_at = "goal_already_satisfied"]
     ELSE PlanLoopObj(L, actions, goal_ref, maxiter)

-----------------------------------------------------------------------------
(* Direct calls of the State, StateManager, KnowledgeBase and validate_plan *)
(* methods on State objects a caller holds.  objs[1] is the State the       *)
(* caller built, objs[2] one obtained from it by copy() or by               *)
(* apply_action_effects.                                                   *)

MaxOps == 1

ObjKeys == {"g", "p"}
ObjValues == {PyTrue, PyNone}
ObjGoals == {"g", "q"}
ObjCatalog == <<Prep, Finish, Placeholder>>

\* facts of the State the caller built: g with every kind of value, p with
\* the values a precondition on p meets
ObjFacts ==
  {EmptyDict} \cup {[g |-> v] : v \in {PyTrue, PyOne, PyStrTrue, PyNone, PyFalse}}
  \cup {[p |-> v] : v \in {PyTrue, PyOne, PyFalse}}
  \cup {[p |-> v, g |-> PyTrue] : v \in {PyTrue, PyOne, PyFalse}}

\* every list of at most n actions of the catalog
RECURSIVE PlansUpTo(_, _)
PlansUpTo(actions, n) ==
  IF n = 0 THEN {<<>>}
  ELSE LET shorter == PlansUpTo(actions, n - 1)
       IN shorter \cup {<<actions[i]>> \o t : i \in 1..Len(actions), t \in shorter}

Snapshot == [i \in 1..Len(objs) |-> Deref(mem, objs[i])]

Called(c, t, k, v, a, pl, r, rk, o) ==
  [call |-> c, obj |-> t, key |-> k, value |-> v, action |-> a, plan |-> pl,
   before |-> Snapshot, ret |-> r, ret_kb |-> rk, out |-> o]

InitObjects ==
  /\ kb = ObjCatalog
  /\ sm_current = NewState(EmptyDict)
  /\ pc = [r \in Runs |-> "off"]
  /\ arg_state = [r \in Runs |-> NewState(EmptyDict)]
  /\ arg_goal = [r \in Runs |-> GoalState({})]
  /\ max_iterations = [r \in Runs |-> DefaultMaxIterations]
  /\ nodes = [r \in Runs |-> <<>>]
  /\ open_set = [r \in Runs |-> <<>>]
  /\ closed_set = [r \in Runs |-> {}]
  /\ visited_states = [r \in Runs |-> {}]
  /\ iteration = [r \in Runs |-> 0]
  /\ current_node = [r \in Runs |-> 0]
  /\ successors = [r \in Runs |-> <<>>]
  /\ result = [r \in Runs |-> <<>>]
  /\ returned_at = [r \in Runs |-> "none"]
  /\ \E f \in ObjFacts, G \in {{}, {"g"}} :
        mem = [dicts |-> <<f>>, sets |-> <<G>>]
  /\ objs = <<[facts |-> 1, goals |-> 1]>>
  /\ last = NoCall
  /\ ops = 0

\* c = s.copy()
DoCopy ==
  /\ Len(objs) = 1
  /\ LET c == copy_obj(mem, objs[1])
     IN /\ mem' = c.mem
        /\ objs' = Append(objs, c.ref)
        /\ last' = Called("copy", 1, "", PyNone, NoAction, <<>>, FALSE, FALSE, <<>>)
  /\ UNCHANGED <<kb, sm_current, ops>>
  /\ UNCHANGED planner_vars

DoSetFact(t, k, v) ==
  /\ ops < MaxOps
  /\ mem' = set_fact_obj(mem, objs[t], k, v)
  /\ last' = Called("set_fact", t, k, v, NoAction, <<>>, FALSE, FALSE, <<>>)
  /\ ops' = ops + 1
  /\ UNCHANGED <<kb, sm_current, objs>>
  /\ UNCHANGED planner_vars

DoRemoveFact(t, k) ==
  /\ ops < MaxOps
  /\ mem' = remove_fact_obj(mem, objs[t], k)
  /\ last' = Called("remove_fact", t, k, PyNone, NoAction, <<>>, FALSE, FALSE, <<>>)
  /\ ops' = ops + 1
  /\ UNCHANGED <<kb, sm_current, objs>>
  /\ UNCHANGED planner_vars

DoAddGoal(t, g) ==
  /\ ops < MaxOps
  /\ mem' = add_goal_obj(mem, objs[t], g)
  /\ last' = Called("add_goal", t, g, PyNone, NoAction, <<>>, FALSE, FALSE, <<>>)
  /\ ops' = ops + 1
  /\ UNCHANGED <<kb, sm_current, objs>>
  /\ UNCHANGED planner_vars

DoRemoveGoal(t, g) ==
  /\ ops < MaxOps
  /\ mem' = remove_goal_obj(mem, objs[t], g)
  /\ last' = Called("remove_goal", t, g, PyNone, NoAction, <<>>, FALSE, FALSE, <<>>)
  /\ ops' = ops + 1
  /\ UNCHANGED <<kb, sm_current, objs>>
  /\ UNCHANGED planner_vars

\* n = state_manager.apply_action_effects(a, s)
DoApplyActionEffects(a) ==
  /\ Len(objs) = 1
  /\ LET n == apply_action_effects_obj(mem, a, objs[1])
     IN /\ mem' = n.mem
        /\ objs' = Append(objs, n.ref)
        /\ last' = Called("apply_action_effects", 1, "", PyNone, a, <<>>, FALSE, FALSE, <<>>)
  /\ UNCHANGED <<kb, sm_current, ops>>
  /\ UNCHANGED planner_vars

\* kb.apply_effects(a, s.facts); the dict it returns is kept in last.out
DoApplyEffects(t, a) ==
  /\ LET n == apply_effects_obj(mem, a, objs[t].facts)
     IN /\ mem' = Surviving(n.mem, mem)
        /\ last' = Called("apply_effects", t, "", PyNone, a, <<>>, FALSE, FALSE,
                          <<n.mem.dicts[n.id]>>)
  /\ UNCHANGED <<kb, sm_current, objs, ops>>
  /\ UNCHANGED planner_vars

\* s.is_goal_satisfied(g)
DoIsGoalSatisfied(t, g) ==
  /\ last' = Called("is_goal_satisfied", t, g, PyNone, NoAction, <<>>,
                    is_goal_satisfied(Deref(mem, objs[t]), g), FALSE, <<>>)
  /\ UNCHANGED <<kb, sm_current, mem, objs, ops>>
  /\ UNCHANGED planner_vars

\* state_manager.check_preconditions(a, s) and kb.check_preconditions(a, s.facts)
DoCheckPreconditions(t, a) ==
  /\ last' = Called("check_preconditions", t, "", PyNone, a, <<>>,
                    check_preconditions(a, Deref(mem, objs[t])),
                    kb_check_preconditions(a, Deref(mem, objs[t]).facts), <<>>)
  /\ UNCHANGED <<kb, sm_current, mem, objs, ops>>
  /\ UNCHANGED planner_vars

\* planner.generate_successors(s): the pairs it returns are kept in last.out
DoGenerateSuccessors(t) ==
  /\ last' = Called("generate_successors", t, "", PyNone, NoAction, <<>>, FALSE, FALSE,
                    generate_successor_states(Deref(mem, objs[t]), get_available_actions(kb)))
  /\ UNCHANGED <<kb, sm_current, mem, objs, ops>>
  /\ UNCHANGED planner_vars

\* planner.validate_plan(plan, s)
DoValidatePlan(t, plan) ==
  /\ LET v == validate_plan_obj(mem, plan, objs[t])
     IN /\ mem' = Surviving(v.mem, mem)
        /\ last' = Called("validate_plan", t, "", PyNone, NoAction, plan, v.ret, FALSE, <<>>)
  /\ UNCHANGED <<kb, sm_current, objs, ops>>
  /\ UNCHANGED planner_vars

\* the calls that only report: each behaviour ends with one of them
Reports == {"apply_effects", "is_goal_satisfied", "check_preconditions",
            "generate_successors", "validate_plan"}

ObjectCall ==
  \/ DoCopy
  \/ \E t \in 1..Len(objs), k \in ObjKeys, v \in ObjValues : DoSetFact(t, k, v)
  \/ \E t \in 1..Len(objs), k \in ObjKeys : DoRemoveFact(t, k)
  \/ \E t \in 1..Len(objs), g \in ObjGoals : DoAddGoal(t, g)
  \/ \E t \in 1..Len(objs), g \in ObjGoals : DoRemoveGoal(t, g)
  \/ \E i \in 1..Len(kb) : DoApplyActionEffects(kb[i])
  \/ \E t \in 1..Len(objs), i \in 1..Len(kb) : DoApplyEffects(t, kb[i])
  \/ \E t \in 1..Len(objs), g \in ObjKeys : DoIsGoalSatisfied(t, g)
  \/ \E t \in 1..Len(objs), i \in 1..Len(kb) : DoCheckPreconditions(t, kb[i])
  \/ \E t \in 1..Len(objs) : DoGenerateSuccessors(t)
  \/ \E t \in 1..Len(objs), plan \in PlansUpTo(kb, 2) : DoValidatePlan(t, plan)

NextObjects == last.call \notin Reports /\ ObjectCall

SpecObjects == InitObjects /\ [][NextObjects]_vars

-----------------------------------------------------------------------------
(* A caller that holds its State objects across calls of plan(): objs[1] is *)
(* the State passed as current_state, objs[2] the one passed as goal_state, *)
(* objs[3] the State the StateManager keeps as current_state, which is its  *)
(* own State() or, after set_current_state, the caller's.  sm_current is    *)
(* what that State holds.  Both runs are calls on the same objects.         *)

CallerPool == <<Direct, Prep, Finish, Extend, Placeholder>>

InitCaller ==
  /\ kb \in SubLists(CallerPool, MaxCatalog)
  /\ pc = [r \in Runs |-> "idle"]
  /\ arg_state = [r \in Runs |-> NewState(EmptyDict)]
  /\ arg_goal = [r \in Runs |-> GoalState({})]
  /\ \E m \in {SmallMaxIterations, DefaultMaxIterations} :
        max_iterations = [r \in Runs |-> IF r = 1 THEN m ELSE DefaultMaxIterations]
  /\ nodes = [r \in Runs |-> <<>>]
  /\ open_set = [r \in Runs |-> <<>>]
  /\ closed_set = [r \in Runs |-> {}]
  /\ visited_states = [r \in Runs |-> {}]
  /\ iteration = [r \in Runs |-> 0]
  /\ current_node = [r \in Runs |-> 0]
  /\ successors = [r \in Runs |-> <<>>]
  /\ result = [r \in Runs |-> <<>>]
  /\ returned_at = [r \in Runs |-> "none"]
  /\ \E f \in InitialFacts, G \in GoalSets :
        /\ mem = [dicts |-> <<f, EmptyDict, EmptyDict>>, sets |-> <<{}, G, {}>>]
        /\ \E own \in BOOLEAN :
              /\ objs = <<[facts |-> 1, goals |-> 1], [facts |-> 2, goals |-> 2],
                          IF own THEN [facts |-> 3, goals |-> 3] ELSE [facts |-> 1, goals |-> 1]>>
              /\ sm_current = IF own THEN NewState(EmptyDict) ELSE NewState(f)
  /\ last = NoCall
  /\ ops = 0

\* plan = planner.plan(current_state, goal_state), from call to return
DoPlan(r) ==
  /\ pc[r] = "idle"
  /\ \E p \in {plan_obj(mem, kb, objs[1], objs[2], max_iterations[r])} :
        /\ mem' = Surviving(p.mem, mem)
        /\ result' = [result EXCEPT ![r] = p.result]
        /\ returned_at' = [returned_at EXCEPT ![r] = p.returned_at]
        /\ iteration' = [iteration EXCEPT ![r] = p.iter]
  /\ sm_current' = Deref(mem', objs[3])
  /\ pc' = [pc EXCEPT ![r] = "done"]
  /\ arg_state' = [arg_state EXCEPT ![r] = Deref(mem, objs[1])]
  /\ arg_goal' = [arg_goal EXCEPT ![r] = Deref(mem, objs[2])]
  /\ last' = Called("plan", r, "", PyNone, NoAction, <<>>, FALSE, FALSE, <<>>)
  /\ UNCHANGED <<kb, max_iterations, nodes, open_set, closed_set, visited_states,
                 current_node, successors, objs, ops>>

NextCaller == \E r \in Runs : DoPlan(r)

SpecCaller == InitCaller /\ [][NextCaller]_vars

-----------------------------------------------------------------------------
(* Vocabulary of the properties, written without the planner's own tests *)

\* fact g is present in dict f and is the boolean True
FactIsTrue(f, g) == g \in DOMAIN f /\ f[g] = "True"

GoalsHold(f, G) == \A g \in G : FactIsTrue(f, g)

\* every precondition of action a is a key of dict f with a value equal under ==
Applicable(a, f) ==
  \A k \in DOMAIN a.preconditions :
     k \in DOMAIN f /\ (f[k] = a.preconditions[k] \/ {f[k], a.preconditions[k]} = {"True", "1"})

\* dict f overwritten by the effects of a
Overwrite(a, f) ==
  [k \in (DOMAIN f) \cup (DOMAIN a.effects) |->
      IF k \in DOMAIN a.effects THEN a.effects[k] ELSE f[k]]

\* replaying plan from dict f: every action applicable where it is taken
RECURSIVE Replays(_, _)
Replays(plan, f) ==
  plan = <<>> \/ (Applicable(Head(plan), f) /\ Replays(Tail(plan), Overwrite(Head(plan), f)))

RECURSIVE FactsAfter(_, _)
FactsAfter(plan, f) ==
  IF plan = <<>> THEN f ELSE FactsAfter(Tail(plan), Overwrite(Head(plan), f))

RECURSIVE PlanCost(_)
PlanCost(plan) ==
  IF plan = <<>> THEN 0 ELSE Head(plan).cost + Head(plan).execution_time + PlanCost(Tail(plan))

Returned(r) == pc[r] = "done"

-----------------------------------------------------------------------------
(* C1: every plan that plan() returns replays from the initial state:      *)
(* validate_plan accepts it, and each action's preconditions hold in the   *)
(* facts left by the actions before it.                                    *)
C1_ReturnedPlanReplays ==
  \A r \in Runs :
     Returned(r) => /\ validate_plan(result[r], arg_state[r])
                    /\ Replays(result[r], arg_state[r].facts)

\* a returned plan whose second action is not applicable in the initial state
C1_Witness ==
  /\ Returned(1)
  /\ Len(result[1]) >= 2
  /\ ~Applicable(result[1][2], arg_state[1].facts)

(* C2: a non-empty returned plan, applied in order to the initial facts,   *)
(* leaves every goal fact present and boolean True.                        *)
C2_PlanReachesGoals ==
  \A r \in Runs :
     (Returned(r) /\ result[r] # <<>>) =>
        GoalsHold(FactsAfter(result[r], arg_state[r].facts), arg_goal[r].goals)

\* a two-goal plan in which a later action overwrites a goal fact the
\* earlier one left as None
C2_Witness ==
  /\ Returned(1)
  /\ Cardinality(arg_goal[1].goals) = 2
  /\ Len(result[1]) = 2
  /\ ~GoalsHold(FactsAfter(<<result[1][2], result[1][1]>>, arg_state[1].facts), arg_goal[1].goals)

\* every list of at most n actions of the catalog
RECURSIVE ActionLists(_, _)
ActionLists(actions, n) ==
  IF n = 0 THEN {<<>>}
  ELSE LET shorter == ActionLists(actions, n - 1)
       IN shorter \cup {<<actions[i]>> \o t : i \in 1..Len(actions), t \in shorter}

\* a replay-valid list of catalog actions that ends with every goal of G true
Solves(alt, f, G) == Replays(alt, f) /\ GoalsHold(FactsAfter(alt, f), G)

\* the dicts some replay-valid action list leads to from a dict of S
RECURSIVE Closure(_, _)
Closure(S, actions) ==
  LET T == S \cup {Overwrite(actions[i], f) :
                     <<i, f>> \in {x \in (1..Len(actions)) \X S : Applicable(actions[x[1]], x[2])}}
  IN IF T = S THEN S ELSE Closure(T, actions)

GoalReachable(f, G, actions) == \E t \in Closure({f}, actions) : GoalsHold(t, G)

(* C3: the cost of a non-empty returned plan is the least cost of any      *)
(* replay-valid action list that ends with every goal true (lists no       *)
(* longer than the catalog are compared).                                  *)
C3_PlanIsCheapest ==
  \A r \in Runs :
     (Returned(r) /\ result[r] # <<>>) =>
        \A alt \in ActionLists(kb, Len(kb)) :
           Solves(alt, arg_state[r].facts, arg_goal[r].goals)
              => PlanCost(result[r]) <= PlanCost(alt)

(* C4 as claimed: when the initial state satisfies every goal, the empty   *)
(* goal set included, plan() has returned the empty plan before any node   *)
(* is created or popped.                                                   *)
C4_AsClaimed ==
  \A r \in Runs :
     (pc[r] \notin {"off", "idle"} /\ GoalsHold(arg_state[r].facts, arg_goal[r].goals))
        => /\ Returned(r)
           /\ result[r] = <<>>
           /\ iteration[r] = 0
           /\ nodes[r] = <<>>

(* C4 amended: for a non-empty goal set that the initial state satisfies,  *)
(* plan() returns the empty plan before any node is created or popped;     *)
(* for the empty goal set it does not short-circuit: the start node is     *)
(* pushed, and the empty list it returns comes from the no-plan exit.      *)
C4_ShortCircuit ==
  \A r \in Runs :
     /\ (pc[r] \notin {"off", "idle"} /\ arg_goal[r].goals # {}
            /\ GoalsHold(arg_state[r].facts, arg_goal[r].goals))
          => /\ Returned(r)
             /\ result[r] = <<>>
             /\ returned_at[r] = "goal_already_satisfied"
             /\ iteration[r] = 0
             /\ nodes[r] = <<>>
     /\ (pc[r] \notin {"off", "idle"} /\ arg_goal[r].goals = {})
          => /\ nodes[r] # <<>>
             /\ Returned(r) => (result[r] = <<>> /\ returned_at[r] = "no_plan_found")

\* a call that short-circuits on a goal fact seeded as True
C4_Witness ==
  /\ Returned(1)
  /\ arg_goal[1].goals # {}
  /\ GoalsHold(arg_state[1].facts, arg_goal[1].goals)
  /\ returned_at[1] = "goal_already_satisfied"

(* C5: the value returned when the goal holds at the start differs from    *)
(* the value returned when no plan is found.                               *)
C5_OutcomesDistinguishable ==
  \A r1 \in Runs, r2 \in Runs :
     (returned_at[r1] = "goal_already_satisfied" /\ returned_at[r2] = "no_plan_found")
        => result[r1] # result[r2]

(* C6: when no replay-valid list of catalog actions leads from the initial *)
(* facts to facts with every goal true, plan() returns the empty list, by  *)
(* the no-plan exit, whether the queue ran empty or the bound was reached. *)
C6_UnreachableGivesEmpty ==
  \A r \in Runs :
     (Returned(r) /\ ~GoalReachable(arg_state[r].facts, arg_goal[r].goals, kb))
        => /\ result[r] = <<>>
           /\ returned_at[r] = "no_plan_found"
           /\ (open_set[r] = <<>> \/ iteration[r] = max_iterations[r])

\* an unreachable goal given up at the iteration bound with nodes still queued
C6_Witness ==
  /\ Returned(1)
  /\ ~GoalReachable(arg_state[1].facts, arg_goal[1].goals, kb)
  /\ arg_goal[1].goals # {}
  /\ iteration[1] = max_iterations[1]
  /\ open_set[1] # <<>>

(* C7: plan() terminates: the loop counter never passes max_iterations and *)
(* every invocation that was called reaches a return.                      *)
C7_Terminates ==
  /\ [](\A r \in Runs : iteration[r] <= max_iterations[r])
  /\ <>(\A r \in Runs : pc[r] \in {"off", "done"})

\* the bound ends a search whose goal a longer search would have reached
C7_Witness ==
  /\ Returned(1)
  /\ returned_at[1] = "no_plan_found"
  /\ iteration[1] = max_iterations[1]
  /\ GoalReachable(arg_state[1].facts, arg_goal[1].goals, kb)

IsString(v) == v \in {PyStrTrue, PyStrPune}

(* C8: repository catalog, facts {location_valid: True, location: <str>},  *)
(* goal {weather_known}, default max_iterations: plan() returns exactly    *)
(* [CheckWeather].                                                         *)
C8_WeatherPlan ==
  \A r \in Runs :
     (/\ Returned(r)
      /\ kb = initialize_actions
      /\ DOMAIN arg_state[r].facts = {"location_valid", "location"}
      /\ arg_state[r].facts["location_valid"] = PyTrue
      /\ IsString(arg_state[r].facts["location"])
      /\ arg_goal[r].goals = {"weather_known"}
      /\ max_iterations[r] = DefaultMaxIterations)
        => result[r] = <<CheckWeather>>

C8_Witness ==
  /\ Returned(1)
  /\ kb = initialize_actions
  /\ arg_state[1].facts = [location_valid |-> PyTrue, location |-> PyStrPune]
  /\ arg_goal[1].goals = {"weather_known"}
  /\ max_iterations[1] = DefaultMaxIterations
  /\ returned_at[1] = "goal_reached"

(* C9: repository catalog, no facts, goals {attendance_known,              *)
(* monthly_attendance_known}, default max_iterations: the returned plan    *)
(* holds CheckAttendance and CheckMonthlyAttendance, each once, and        *)
(* nothing else.                                                           *)
C9_AttendancePlan ==
  \A r \in Runs :
     (/\ Returned(r)
      /\ kb = initialize_actions
      /\ arg_state[r].facts = EmptyDict
      /\ arg_goal[r].goals = {"attendance_known", "monthly_attendance_known"}
      /\ max_iterations[r] = DefaultMaxIterations)
        => /\ Len(result[r]) = 2
           /\ {result[r][1], result[r][2]} = {CheckAttendance, CheckMonthlyAttendance}

C9_Witness ==
  /\ Returned(1)
  /\ kb = initialize_actions
  /\ arg_state[1].facts = EmptyDict
  /\ arg_goal[1].goals = {"attendance_known", "monthly_attendance_known"}
  /\ max_iterations[1] = DefaultMaxIterations
  /\ returned_at[1] = "goal_reached"

Local(r) ==
  <<pc[r], arg_state[r], arg_goal[r], max_iterations[r], nodes[r], open_set[r],
    closed_set[r], visited_states[r], iteration[r], current_node[r], successors[r],
    result[r], returned_at[r]>>

(* C11: with the steps of two invocations interleaved, every step changes  *)
(* the open, closed and visited sets (and every other local) of one        *)
(* invocation only, and an invocation that returns, returns the plan that  *)
(* plan() gives for its arguments when it runs alone.                      *)
C11_InterleavedAsAlone ==
  [][ /\ \E r \in Runs : \A o \in Runs \ {r} : Local(o)' = Local(o)
      /\ \A r \in Runs :
            (pc[r] # "done" /\ pc'[r] = "done")
               => result'[r] = plan_alone(kb, arg_state[r], arg_goal[r], max_iterations[r]) ]_vars

\* invocation 1 returned a plan of two steps while invocation 2 is inside its
\* loop and has closed a state that invocation 1 visited
C11_Witness ==
  /\ Returned(1)
  /\ Len(result[1]) >= 2
  /\ pc[2] \in {"loop", "succ"}
  /\ arg_state[1] # arg_state[2]
  /\ \E st \in closed_set[2] : InStateSet(st, visited_states[1]) /\ ~StateEq(st, arg_state[1])

C13_PlanActionsInCatalog ==
  \A r \in Runs :
     Returned(r) =>
        \A i \in 1..Len(result[r]) :
           /\ \E j \in 1..Len(kb) : kb[j] = result[r][i]
           /\ get_action(kb, result[r][i].name).name = result[r][i].name
           /\ get_action(kb, result[r][i].name) = result[r][i]

\* a returned plan of two steps that leaves one catalog action out
C13_Witness ==
  /\ Returned(1)
  /\ Len(result[1]) = 2
  /\ \E j \in 1..Len(kb) : \A i \in 1..Len(result[1]) : kb[j] # result[1][i]

(* C14: is_goal_satisfied(g) returns true exactly when fact g is present   *)
(* and its value is the boolean True; the string "true", the number 1,     *)
(* the placeholder None, False and an absent fact all give false.          *)
C14_GoalSatisfiedIffTrue ==
  last.call = "is_goal_satisfied" =>
     LET f == last.before[last.obj].facts
         g == last.key
     IN /\ last.ret <=> FactIsTrue(f, g)
        /\ g \notin DOMAIN f => ~last.ret
        /\ (g \in DOMAIN f /\ f[g] \in {"true", "1", "None", "False"}) => ~last.ret
        /\ (g \in DOMAIN f /\ f[g] = "True") => last.ret

\* the call answered false for a fact whose value is the number 1
C14_Witness ==
  /\ last.call = "is_goal_satisfied"
  /\ last.key \in DOMAIN last.before[last.obj].facts
  /\ last.before[last.obj].facts[last.key] = "1"
  /\ ~last.ret

Mutators == {"set_fact", "remove_fact", "add_goal", "remove_goal"}

(* C15: right after c = s.copy(), c has the facts and goals of s, c == s   *)
(* and hash(c) = hash(s), and s is as it was; every later set_fact,        *)
(* remove_fact, add_goal or remove_goal on one of the two leaves the       *)
(* facts and goals of the other unchanged.                                 *)
C15_CopyEqualAndIndependent ==
  /\ last.call = "copy" =>
        /\ Deref(mem, objs[2]) = Deref(mem, objs[1])
        /\ StateEq(Deref(mem, objs[2]), Deref(mem, objs[1]))
        /\ State_hash(Deref(mem, objs[2])) = State_hash(Deref(mem, objs[1]))
        /\ Deref(mem, objs[1]) = last.before[1]
  /\ (last.call \in Mutators /\ Len(objs) = 2) =>
        Deref(mem, objs[3 - last.obj]) = last.before[3 - last.obj]

\* a fact set on the copy of a State with facts: the two now differ
C15_Witness ==
  /\ last.call = "set_fact"
  /\ Len(objs) = 2
  /\ last.obj = 2
  /\ last.before[1] = last.before[2]
  /\ last.before[1].facts # EmptyDict
  /\ Deref(mem, objs[2]).facts # Deref(mem, objs[1]).facts

\* every precondition of a is a key of dict f holding the very same value
ExactlyMet(a, f) ==
  \A k \in DOMAIN a.preconditions : k \in DOMAIN f /\ f[k] = a.preconditions[k]

C17_EffectsAppliedToNewState ==
  /\ last.call = "apply_action_effects" =>
        LET a == last.action
            s == last.before[1]
            n == Deref(mem, objs[2])
        IN /\ objs[2].facts # objs[1].facts /\ objs[2].goals # objs[1].goals
           /\ \A k \in DOMAIN a.effects : k \in DOMAIN n.facts /\ n.facts[k] = a.effects[k]
           /\ DOMAIN n.facts = (DOMAIN s.facts) \cup (DOMAIN a.effects)
           /\ \A k \in (DOMAIN s.facts) \ (DOMAIN a.effects) : n.facts[k] = s.facts[k]
           /\ n.goals = s.goals
           /\ Deref(mem, objs[1]) = s
  /\ last.call = "apply_effects" =>
        LET a == last.action
            f == last.before[last.obj].facts
            n == last.out[1]
        IN /\ \A k \in DOMAIN a.effects : k \in DOMAIN n
           /\ DOMAIN n = (DOMAIN f) \cup (DOMAIN a.effects)
           /\ \A k \in (DOMAIN f) \ (DOMAIN a.effects) : n[k] = f[k]
           /\ Deref(mem, objs[last.obj]) = last.before[last.obj]

\* an effect overwrote, in the new State, a fact that the input State keeps
\* with its old value, next to a fact and a goal the action does not name
C17_Witness ==
  /\ last.call = "apply_action_effects"
  /\ \E k \in DOMAIN last.action.effects :
        /\ k \in DOMAIN last.before[1].facts
        /\ last.before[1].facts[k] # last.action.effects[k]
        /\ Deref(mem, objs[1]).facts[k] = last.before[1].facts[k]
        /\ Deref(mem, objs[2]).facts[k] = last.action.effects[k]
  /\ (DOMAIN last.before[1].facts) \ (DOMAIN last.action.effects) # {}
  /\ last.before[1].goals # {}

(* C18: in the State that apply_action_effects returns and in the dict     *)
(* that KnowledgeBase.apply_effects returns, every effect whose catalog    *)
(* value is the placeholder None is stored as the boolean True, and the    *)
(* two give the same facts for the same action and input.                  *)
C18_PlaceholderBecomesTrue ==
  /\ last.call = "apply_action_effects" =>
        LET a == last.action
            n == Deref(mem, objs[2])
        IN /\ \A k \in DOMAIN a.effects : a.effects[k] = "None" => n.facts[k] = "True"
           /\ n.facts = apply_effects(a, last.before[1].facts)
  /\ last.call = "apply_effects" =>
        \A k \in DOMAIN last.action.effects :
           last.action.effects[k] = "None" => last.out[1][k] = "True"

\* the positions of catalog `actions` whose action is applicable in dict f
ApplicableAt(actions, f) == {i \in 1..Len(actions) : Applicable(actions[i], f)}

(* C19: generate_successors(s) returns one pair for each catalog action    *)
(* that is applicable in s and none for the others, in catalog order; the  *)
(* pair of action a is (the facts of s overwritten by the effects of a,    *)
(* with the goals of s; a), whether or not a sets a goal.                  *)
C19_SuccessorsAreApplicableActions ==
  last.call = "generate_successors" =>
     LET s == last.before[last.obj]
         A == ApplicableAt(kb, s.facts)
     IN /\ Len(last.out) = Cardinality(A)
        /\ \A i \in A :
              LET j == Cardinality({x \in A : x <= i})
              IN /\ last.out[j].action = kb[i]
                 /\ last.out[j].new_state = [facts |-> Overwrite(kb[i], s.facts), goals |-> s.goals]

\* one catalog action is not applicable, and of the two pairs returned one
\* belongs to an action that sets no goal of the state
C19_Witness ==
  /\ last.call = "generate_successors"
  /\ Len(last.out) = 2
  /\ Len(kb) = 3
  /\ last.before[last.obj].goals # {}
  /\ \E j \in 1..2 : (DOMAIN last.out[j].action.effects) \cap last.before[last.obj].goals = {}

(* C20: validate_plan(plan, s) returns true exactly when, replaying from   *)
(* the facts of s, every action is applicable in the facts left by the     *)
(* actions before it, so false as soon as one is not and true for the      *)
(* empty plan; s has the same facts and goals after the call.              *)
C20_ValidateIsReplay ==
  last.call = "validate_plan" =>
     LET s == last.before[last.obj]
     IN /\ last.ret <=> Replays(last.plan, s.facts)
        /\ last.plan = <<>> => last.ret
        /\ (\E i \in 1..Len(last.plan) :
               /\ Replays(SubSeq(last.plan, 1, i - 1), s.facts)
               /\ ~Applicable(last.plan[i], FactsAfter(SubSeq(last.plan, 1, i - 1), s.facts)))
             => ~last.ret
        /\ Deref(mem, objs[last.obj]) = s

\* a plan accepted although its second action is not applicable in s itself
C20_Witness ==
  /\ last.call = "validate_plan"
  /\ Len(last.plan) = 2
  /\ last.ret
  /\ ~Applicable(last.plan[2], last.before[last.obj].facts)

\* the catalog `actions` with the dependencies of its i-th action replaced by deps[i]
Redeclared(actions, deps) ==
  [i \in 1..Len(actions) |-> [actions[i] EXCEPT !.dependencies = deps[i]]]

\* the dependencies lists tried for an action
DependencyLists == {<<>>, <<"Prep", "Missing">>}

\* a plan with the dependencies field of its actions blanked
Undeclared(plan) == [i \in 1..Len(plan) |-> [plan[i] EXCEPT !.dependencies = <<>>]]

\* the declared dependencies of the i-th action of plan all occur before it
DependenciesPrecede(plan, i) ==
  \A d \in 1..Len(plan[i].dependencies) :
     \E j \in 1..(i - 1) : plan[j].name = plan[i].dependencies[d]

(* C21: planning does not read the dependencies field: whatever lists the   *)
(* catalog actions declare, plan() returns the same actions (the            *)
(* dependencies field apart), so a returned plan may hold an action none of *)
(* whose declared dependencies precede it.                                  *)
C21_DependenciesNotEnforced ==
  [][ \A r \in Runs :
        (pc[r] # "done" /\ pc'[r] = "done")
           => \A deps \in [1..Len(kb) -> DependencyLists] :
                 Undeclared(plan_alone(Redeclared(kb, deps), arg_state[r], arg_goal[r],
                                       max_iterations[r]))
                   = Undeclared(result'[r]) ]_vars

\* a returned plan holds an action before which a declared dependency is
\* missing, and validate_action_sequence rejects the plan
C21_Witness ==
  \E r \in Runs :
     /\ Returned(r)
     /\ returned_at[r] = "goal_reached"
     /\ \E i \in 1..Len(result[r]) :
           /\ result[r][i].dependencies # <<>>
           /\ ~DependenciesPrecede(result[r], i)
     /\ ~validate_action_sequence(result[r])

\* two State values that Python's == takes for equal
Alike(s, t) ==
  /\ DOMAIN s.facts = DOMAIN t.facts
  /\ \A k \in DOMAIN s.facts : s.facts[k] = t.facts[k] \/ {s.facts[k], t.facts[k]} = {"True", "1"}
  /\ s.goals = t.goals

\* the states of the nodes in the open queue of invocation r
QueuedStates(r) == {nodes[r][open_set[r][j]].state : j \in 1..Len(open_set[r])}

(* C22: a state that is in the closed set is never in the open queue again, *)
(* neither pushed nor left there, and the node a pass of the loop pops has  *)
(* a state that was not closed before: a state is expanded at most once.    *)
C22_ClosedNeverReopens ==
  [][ \A r \in Runs :
        /\ \A c \in closed_set'[r] : \A q \in QueuedStates(r)' : ~Alike(c, q)
        /\ iteration'[r] # iteration[r]
              => \A c \in closed_set[r] : ~Alike(c, nodes[r][current_node'[r]].state) ]_vars

\* a pass of the loop has ended in which an applicable action led from the
\* expanded state back to a state closed in an earlier pass
C22_Witness ==
  \E r \in Runs :
     /\ pc[r] = "loop"
     /\ iteration[r] >= 2
     /\ LET cur == nodes[r][current_node[r]].state
        IN \E i \in 1..Len(kb) :
              /\ Applicable(kb[i], cur.facts)
              /\ \E c \in closed_set[r] :
                    /\ ~Alike(c, cur)
                    /\ Alike(c, [facts |-> Overwrite(kb[i], cur.facts), goals |-> cur.goals])

\* the f_cost of node n of invocation r: g_cost + h_cost as the node was built
FCost(r, n) == nodes[r][n].g_cost + nodes[r][n].h_cost

\* invocation r pops a node in this step
Pops(r) == iteration'[r] = iteration[r] + 1

(* C23: the node a pass of the loop pops has the lowest f_cost of the nodes *)
(* queued at that moment, also when a queued node was replaced in place     *)
(* before; the goal test is made on the popped node: when the goal set is   *)
(* not empty and its state satisfies every goal, the search ends there with *)
(* the path to it, and otherwise (an empty goal set included) the search    *)
(* goes on.                                                                 *)
C23_PopsLowestAndTestsGoal ==
  [][ \A r \in Runs :
        Pops(r) =>
          LET n == current_node'[r]
              st == nodes[r][n].state
          IN /\ \E j \in 1..Len(open_set[r]) : open_set[r][j] = n
             /\ \A j \in 1..Len(open_set[r]) : FCost(r, n) <= FCost(r, open_set[r][j])
             /\ IF arg_goal[r].goals # {} /\ GoalsHold(st.facts, arg_goal[r].goals)
                THEN /\ pc'[r] = "done"
                     /\ returned_at'[r] = "goal_reached"
                     /\ Replays(result'[r], arg_state[r].facts)
                     /\ Alike([facts |-> FactsAfter(result'[r], arg_state[r].facts),
                               goals |-> st.goals], st)
                ELSE pc'[r] # "done" ]_vars

\* C23 as stated: a popped node whose state satisfies every goal ends the
\* search, whatever the goal set
C23_AsClaimed ==
  [][ \A r \in Runs :
        (Pops(r) /\ GoalsHold(nodes[r][current_node'[r]].state.facts, arg_goal[r].goals))
           => pc'[r] = "done" /\ returned_at'[r] = "goal_reached" ]_vars

\* a queued node was replaced in place by a cheaper node of the same state,
\* and the replacing node was popped later
C23_Witness ==
  \E r \in Runs :
     /\ iteration[r] >= 2
     /\ \E n \in 1..Len(nodes[r]), old \in 1..Len(nodes[r]) :
           /\ old < n
           /\ Alike(nodes[r][old].state, nodes[r][n].state)
           /\ FCost(r, n) < FCost(r, old)
           /\ \A j \in 1..Len(open_set[r]) : open_set[r][j] \notin {n, old}
           /\ n = current_node[r]

\* the nodes in the open queue of invocation r, as a set
Queued(r) == {open_set[r][j] : j \in 1..Len(open_set[r])}

\* the heuristic of a state: 3.0 (30 tenths) for each goal that is not True in it
Remaining(st, G) == 30 * Cardinality({g \in G : ~FactIsTrue(st.facts, g)})

\* invocation r handles the first successor of its list in this step
HandlesSuccessor(r) == pc[r] = "succ" /\ successors'[r] = Tail(successors[r])

(* C24: for a successor state that is not closed: if no equal state was     *)
(* ever visited, one node for it (parent the expanded node, the action,     *)
(* g_cost the parent's plus the action's cost) joins the queue and the      *)
(* state is visited from then on; if it was visited and a queued node of an *)
(* equal state has a strictly greater f_cost than the new node, the new     *)
(* node takes that node's place in the queue; otherwise the queue and the   *)
(* nodes stay as they are.  The visited set changes in the first case only. *)
C24_SuccessorHandling ==
  [][ \A r \in Runs :
        HandlesSuccessor(r) =>
          LET s == Head(successors[r]).new_state
              a == Head(successors[r]).action
              cur == current_node[r]
              g == nodes[r][cur].g_cost + a.cost + a.execution_time
              f == g + Remaining(s, arg_goal[r].goals)
              n == Len(nodes[r]) + 1
              AsBuilt == /\ Len(nodes'[r]) = n
                         /\ nodes'[r][n].state = s
                         /\ nodes'[r][n].parent = cur
                         /\ nodes'[r][n].action = a
                         /\ nodes'[r][n].g_cost = g
                         /\ nodes'[r][n].f_cost = f
                         /\ \A k \in 1..Len(nodes[r]) : nodes'[r][k] = nodes[r][k]
                         /\ Len(open_set'[r]) = Cardinality(Queued(r)')
              Worse == {m \in Queued(r) : Alike(nodes[r][m].state, s) /\ f < FCost(r, m)}
          IN IF \E c \in closed_set[r] : Alike(c, s)
             THEN UNCHANGED <<nodes, open_set, visited_states>>
             ELSE IF ~\E v \in visited_states[r] : Alike(v, s)
             THEN /\ AsBuilt
                  /\ Queued(r)' = Queued(r) \cup {n}
                  /\ visited_states'[r] = visited_states[r] \cup {s}
             ELSE IF Worse # {}
             THEN /\ AsBuilt
                  /\ \E m \in Worse : Queued(r)' = (Queued(r) \ {m}) \cup {n}
                  /\ UNCHANGED visited_states
             ELSE UNCHANGED <<nodes, open_set, visited_states>> ]_vars

\* a queued node has taken the place of a costlier node of the same state,
\* which is neither queued nor closed
C24_Witness ==
  \E r \in Runs :
     /\ pc[r] \in {"loop", "succ"}
     /\ \E n \in Queued(r), old \in 1..Len(nodes[r]) :
           /\ old \notin Queued(r)
           /\ old < n
           /\ Alike(nodes[r][old].state, nodes[r][n].state)
           /\ FCost(r, n) < FCost(r, old)
           /\ nodes[r][n].parent # nodes[r][old].parent

\* the number of parent links from node n of store ns to the root
RECURSIVE Depth(_, _)
Depth(ns, n) == IF ns[n].parent = 0 THEN 0 ELSE 1 + Depth(ns, ns[n].parent)

\* the node k parent links above node n
RECURSIVE Ancestor(_, _, _)
Ancestor(ns, n, k) == IF k = 0 THEN n ELSE Ancestor(ns, ns[n].parent, k - 1)

\* path lists, from the root on, the actions that produced the nodes of the
\* parent chain of node n
IsPathTo(path, ns, n) ==
  /\ Len(path) = Depth(ns, n)
  /\ \A i \in 1..Len(path) : path[i] = ns[Ancestor(ns, n, Depth(ns, n) - i)].action

(* C25: for every node n that plan() has built, reconstruct_path(n) is the  *)
(* list of the actions on the parent chain of n in root-to-n order: as long *)
(* as the chain has parent links, its i-th action the one that produced the *)
(* i-th node after the root, and empty for the root; the plan returned at a *)
(* goal node is that list for the popped node.                              *)
C25_PathFollowsParents ==
  \A r \in Runs :
     /\ \A n \in 1..Len(nodes[r]) : IsPathTo(reconstruct_path(nodes[r], n), nodes[r], n)
     /\ nodes[r] # <<>> => reconstruct_path(nodes[r], 1) = <<>>
     /\ (Returned(r) /\ returned_at[r] = "goal_reached")
           => IsPathTo(result[r], nodes[r], current_node[r])

\* a plan of two different actions was returned for a node two links below
\* the root
C25_Witness ==
  \E r \in Runs :
     /\ Returned(r)
     /\ returned_at[r] = "goal_reached"
     /\ Depth(nodes[r], current_node[r]) = 2
     /\ Len(result[r]) = 2
     /\ result[r][1] # result[r][2]

\* the goals of G that are not satisfied by dict f
Unsatisfied(f, G) == {g \in G : ~FactIsTrue(f, g)}

\* facts that are no goal, and values, written into a state to see what the
\* heuristic reads
OtherFacts == {"p", "h", "x"}
OtherValues == {"True", "None", "Pune"}

(* C26: the heuristic of every node is 3.0 (30 tenths) times the number of  *)
(* goals that are not satisfied in the node's state; it is 0 exactly when   *)
(* every goal is satisfied; and setting or removing a fact that is not a    *)
(* goal leaves calculate_heuristic as it is.                                *)
C26_HeuristicCountsUnsatisfiedGoals ==
  \A r \in Runs : \A n \in 1..Len(nodes[r]) :
     LET st == nodes[r][n].state
         G == arg_goal[r].goals
     IN /\ nodes[r][n].h_cost = 30 * Cardinality(Unsatisfied(st.facts, G))
        /\ calculate_heuristic(st, arg_goal[r]) = nodes[r][n].h_cost
        /\ (nodes[r][n].h_cost = 0) <=> GoalsHold(st.facts, G)
        /\ \A k \in OtherFacts \ G :
              /\ \A v \in OtherValues :
                    calculate_heuristic(set_fact(st, k, v), arg_goal[r]) = nodes[r][n].h_cost
              /\ calculate_heuristic([st EXCEPT !.facts = [x \in (DOMAIN st.facts) \ {k} |-> st.facts[x]]],
                                     arg_goal[r]) = nodes[r][n].h_cost

\* of two goals one is satisfied in a node's state and the other is present
\* but not True, next to a fact that is no goal
C26_Witness ==
  \E r \in Runs : \E n \in 1..Len(nodes[r]) :
     LET st == nodes[r][n].state
     IN /\ arg_goal[r].goals = {"g", "q"}
        /\ nodes[r][n].h_cost = 30
        /\ "p" \in DOMAIN st.facts
        /\ "g" \in DOMAIN st.facts
        /\ "q" \in DOMAIN st.facts

-----------------------------------------------------------------------------
(* C27: with the repository's catalog and max_iterations 1000, when the     *)
(* single goal fact is not satisfied by the initial state and the initial   *)
(* state meets every precondition of the catalog action whose effects set   *)
(* that goal fact to True, plan() returns exactly that one action.          *)
Producers(actions, g) ==
  {i \in 1..Len(actions) : g \in DOMAIN actions[i].effects /\ actions[i].effects[g] = "True"}

SeededFor(r, i) ==
  /\ max_iterations[r] = 1000
  /\ \E g \in arg_goal[r].goals :
        /\ arg_goal[r].goals = {g}
        /\ ~FactIsTrue(arg_state[r].facts, g)
        /\ Producers(kb, g) = {i}
        /\ Applicable(kb[i], arg_state[r].facts)

C27_SeededIntentGetsItsAction ==
  \A r \in Runs : \A i \in 1..Len(kb) :
     (Returned(r) /\ SeededFor(r, i)) => result[r] = <<kb[i]>>

\* the same for every intent but PlanTrip
C27_AllButPlanTrip ==
  \A r \in Runs : \A i \in 1..Len(kb) :
     (Returned(r) /\ SeededFor(r, i) /\ kb[i].name # "PlanTrip") => result[r] = <<kb[i]>>

\* PlanTrip's call ends at the iteration limit with the empty list
C27_PlanTripGivesUp ==
  \A r \in Runs : \A i \in 1..Len(kb) :
     (Returned(r) /\ SeededFor(r, i) /\ kb[i].name = "PlanTrip")
        => (result[r] = <<>> /\ returned_at[r] = "no_plan_found" /\ iteration[r] = 1000)

-----------------------------------------------------------------------------
(* C28: plan() leaves its inputs unchanged: over every call, the State      *)
(* passed as current_state and the State passed as goal_state hold the same *)
(* facts and goals after the call as before it, the caller still holds the  *)
(* same objects, and the StateManager's current_state holds what it held.   *)
PlanReturns(r) == pc[r] = "idle" /\ pc'[r] = "done"

Holds(m, ref) == [facts |-> m.dicts[ref.facts], goals |-> m.sets[ref.goals]]

C28_PlanLeavesInputsUnchanged ==
  [][\A r \in Runs : PlanReturns(r) =>
        /\ objs' = objs
        /\ \A k \in 1..Len(objs) : Holds(mem', objs'[k]) = Holds(mem, objs[k])
        /\ sm_current' = sm_current]_vars

\* a call returned a plan of two actions from a State that holds facts, with
\* the StateManager keeping the caller's State, and the two calls agree
C28_Witness ==
  /\ Returned(1) /\ Returned(2)
  /\ Len(result[2]) = 2
  /\ Holds(mem, objs[1]).facts # EmptyDict
  /\ objs[3] = objs[1]
  /\ result[1] = result[2]
  /\ last.call = "plan"
  /\ Holds(mem, objs[1]) = last.before[1]

\* the object form of plan() returns what the value form returns
PlanObjAgrees ==
  \A r \in Runs : Returned(r) =>
     result[r] = plan_alone(kb, arg_state[r], arg_goal[r], max_iterations[r])

-----------------------------------------------------------------------------
(* C29: at every point of plan()'s main loop the open queue holds at most   *)
(* one node per distinct state, no state of a queued node is in the closed  *)
(* set, and every state that is queued or closed is in the visited set.     *)
OnePerState(r) ==
  \A j, k \in 1..Len(open_set[r]) :
     j # k => /\ open_set[r][j] # open_set[r][k]
              /\ ~Alike(nodes[r][open_set[r][j]].state, nodes[r][open_set[r][k]].state)

Visited(r, s) == \E v \in visited_states[r] : Alike(v, s)

C29_QueueClosedVisited ==
  \A r \in Runs :
     /\ OnePerState(r)
     /\ \A q \in QueuedStates(r) : \A c \in closed_set[r] : ~Alike(c, q)
     /\ \A s \in QueuedStates(r) \cup closed_set[r] : Visited(r, s)

\* in the loop, with two nodes queued and two states closed, after a queued
\* node gave way to a cheaper node of its state and a successor of a state
\* that differs from a visited one only by 1 for True was met
C29_Witness ==
  \E r \in Runs :
     /\ pc[r] \in {"loop", "succ"}
     /\ Len(open_set[r]) >= 2
     /\ Cardinality(closed_set[r]) >= 2
     /\ \E n \in Queued(r), old \in 1..Len(nodes[r]) :
           /\ old \notin Queued(r)
           /\ Alike(nodes[r][old].state, nodes[r][n].state)
           /\ FCost(r, n) < FCost(r, old)
     /\ \E v \in visited_states[r], n \in 1..Len(nodes[r]) :
           Alike(v, nodes[r][n].state) /\ v # nodes[r][n].state

-----------------------------------------------------------------------------
(* C30: with the repository's catalog no plan that plan() returns contains  *)
(* the same action more than once, whatever the initial state and the goal  *)
(* set.                                                                     *)
NoActionTwice(plan) ==
  \A i, j \in 1..Len(plan) : i # j => plan[i].name # plan[j].name

C30_NoActionTwice == \A r \in Runs : Returned(r) => NoActionTwice(result[r])

\* a plan of four actions was returned, from a state in which one of them
\* could be applied, and each of them can be applied again after the plan
C30_Witness ==
  \E r \in Runs :
     /\ Returned(r)
     /\ Len(result[r]) = 4
     /\ NoActionTwice(result[r])
     /\ \E i \in 1..4 : Applicable(result[r][i], arg_state[r].facts)
     /\ \A i \in 1..4 : Applicable(result[r][i], FactsAfter(result[r], arg_state[r].facts))

====
